---- MODULE Spec2Model ----
(***************************************************************************)
(* A model of fanwhy (src/fanwhy/core.py, src/fanwhy/cli.py,               *)
(* src/fanwhy/sensors_integration.py).                                     *)
(*                                                                         *)
(* Text read from /proc is a sequence of one-character strings, so that    *)
(* str.split, str.strip, str.find, str.rfind and int() are computed the    *)
(* way the code computes them.  Python floats are modelled as exact        *)
(* rationals <<n, d>> in lowest terms with d > 0.                          *)
(*                                                                         *)
(* Specifications:                                                         *)
(*   SpecCpu    calculate_cpu_usage / read_cpu_stat                        *)
(*   SpecStat   read_process_stat on one record                            *)
(*   SpecProc   get_top_processes / calculate_process_cpu_usage            *)
(*   SpecMon    print_monitor                                              *)
(*   SpecMonLive  print_monitor bounded by a duration, under fairness     *)
(*   SpecSensors  get_max_temperature (sensors_integration.py)            *)
(*   SpecSnap   print_snapshot                                             *)
(***************************************************************************)
EXTENDS Integers, Sequences, FiniteSets, TLC

VARIABLES
    \* ---- calculate_cpu_usage ----
    procStat,       \* what /proc/stat holds now: NoFile or its first line
    cpuPc,          \* position inside calculate_cpu_usage
    readOut,        \* what the latest read_cpu_stat call returned or raised
    snapshot1,      \* core.py:109
    snapshot2,      \* core.py:111
    cpuOut,         \* what calculate_cpu_usage returned or raised
    \* ---- read_process_stat ----
    content,        \* /proc/[pid]/stat of the pid asked for
    statPc,         \* position of the read_process_stat call
    statOut,        \* what read_process_stat returned
    \* ---- get_top_processes / calculate_process_cpu_usage ----
    proc1,          \* /proc as it was at the first pass
    proc2,          \* /proc as it is at the second pass
    procPc,         \* position inside get_top_processes
    arg_interval,   \* the interval argument (seconds)
    arg_n,          \* the n argument
    proc_snapshot1,         \* core.py:263, pid -> utime + stime
    process_info_map,       \* core.py:264, in insertion order
    processes_with_usage,   \* core.py:311, as returned at core.py:328
    processes,      \* core.py:344, what get_top_processes returned
    \* ---- print_monitor ----
    mon_interval,   \* the interval argument (seconds)
    duration,       \* the duration argument, then the local of cli.py:132
    samples,        \* the samples argument
    top_n,          \* the top_n argument
    show_temps,     \* the show_temps argument
    raw,            \* the raw argument
    monPc,          \* position inside print_monitor
    now,            \* time.time(), in seconds
    start_time,     \* cli.py:137
    cpu_readings,   \* cli.py:134
    all_processes,  \* cli.py:135, in insertion order
    temperatures,   \* cli.py:136
    sample_count,   \* cli.py:138
    warnings,       \* warnings written to stderr (cli.py:180)
    slept,          \* the latest pass of cli.py:183-190 called time.sleep
    outcome,        \* how the latest measurement of cli.py:153-181 ended
    summary,        \* the summary written at cli.py:196-228, if any
    interruptedMsg, \* "Monitoring interrupted by user." was written
    \* ---- get_max_temperature ----
    zones,          \* the zone files glob.glob returns, in its order
    tool,           \* what running the sensors command comes to
    sensPc,         \* position inside get_max_temperature
    queried,        \* the sources read so far
    sysfs_temps,    \* sensors_integration.py:119
    sensors_temp,   \* sensors_integration.py:127
    maxOut,         \* what get_max_temperature returned
    \* ---- print_snapshot ----
    snapArgs,       \* the arguments top_n, show_temps and raw
    snapPc,         \* position inside print_snapshot
    snapCpu,        \* what calculate_cpu_usage returned or raised (cli.py:64)
    snap_cpu_percent,   \* cpu_percent of cli.py:64
    snap_processes, \* processes of cli.py:67
    temp_summary,   \* cli.py:70-72
    stdout,         \* the lines written to stdout
    stderr,         \* the lines written to stderr
    exit_status     \* the status of sys.exit, 0 after a return

cpuVars == <<procStat, cpuPc, readOut, snapshot1, snapshot2, cpuOut>>
statVars == <<content, statPc, statOut>>
procVars == <<proc1, proc2, procPc, arg_interval, arg_n, proc_snapshot1, process_info_map,
              processes_with_usage, processes>>
monVars == <<mon_interval, duration, samples, top_n, show_temps, raw, monPc, now,
             start_time, cpu_readings, all_processes, temperatures, sample_count, warnings,
             slept, outcome, summary, interruptedMsg>>
sensVars == <<zones, tool, sensPc, queried, sysfs_temps, sensors_temp, maxOut>>
snapVars == <<snapArgs, snapPc, snapCpu, snap_cpu_percent, snap_processes, temp_summary,
              stdout, stderr, exit_status>>
vars == <<cpuVars, statVars, procVars, monVars, sensVars, snapVars>>
notCpu == <<statVars, procVars, monVars, sensVars, snapVars>>
notStat == <<cpuVars, procVars, monVars, sensVars, snapVars>>
notProc == <<cpuVars, statVars, monVars, sensVars, snapVars>>
notMon == <<cpuVars, statVars, procVars, sensVars, snapVars>>
notSens == <<cpuVars, statVars, procVars, monVars, snapVars>>
notSnap == <<cpuVars, statVars, procVars, monVars, sensVars>>

-----------------------------------------------------------------------------
(* Bounds *)

MaxTick == 2        \* /proc/stat counters user and idle range over 0..MaxTick
MaxFields == 11     \* most counter fields written after the label
MaxNameLen == 2     \* longest process name in a stat record
MaxStatFields == 14 \* most fields after the name in a stat record
NumPids == 2        \* pids that can be alive
MaxProcTick == 1    \* a process has used 0..MaxProcTick units of 150 ticks
MaxTop == 3         \* largest n asked of get_top_processes
MaxDuration == 4    \* longest --duration, in seconds
MaxSamples == 2     \* largest --samples
MaxClock == 8       \* the clock is followed up to this many seconds
MaxWarnings == 2    \* failed measurements followed in one run
MaxZones == 3       \* thermal zone files that glob returns

-----------------------------------------------------------------------------
(* Generic helpers *)

\* a file of /proc: one that open() refuses (OSError), or its text
NoFile == [open |-> FALSE, text |-> <<>>]
File(text) == [open |-> TRUE, text |-> text]

\* the outcome of a call
NotCalled == [kind |-> "none"]
IOError == [kind |-> "IOError"]         \* the call raised IOError
Ok(v) == [kind |-> "ok", value |-> v]   \* the call returned v
IsOk(r) == r.kind = "ok"

Min(a, b) == IF a < b THEN a ELSE b
Max(a, b) == IF a > b THEN a ELSE b
Abs(a) == IF a < 0 THEN -a ELSE a

RECURSIVE GCD(_, _)
GCD(a, b) == IF b = 0 THEN a ELSE GCD(b, a % b)

\* the rational n/d (d # 0) in lowest terms with a positive denominator
Rat(n, d) ==
    LET g == GCD(Abs(n), Abs(d))
        s == IF d < 0 THEN -1 ELSE 1
    IN  <<(s * n) \div g, (s * d) \div g>>

RatLess(a, b) == a[1] * b[2] < b[1] * a[2]
RatLeq(a, b) == a[1] * b[2] <= b[1] * a[2]
RatAdd(a, b) == Rat(a[1] * b[2] + b[1] * a[2], a[2] * b[2])
RatMax(a, b) == IF RatLess(a, b) THEN b ELSE a
RatMin(a, b) == IF RatLess(b, a) THEN b ELSE a
Zero == <<0, 1>>
Hundred == <<100, 1>>

-----------------------------------------------------------------------------
(* Text *)

Digits == {"0", "1", "2", "3", "4", "5", "6", "7", "8", "9"}
Whitespace == {" ", "\n", "\t"}

DigitVal(c) ==
    CASE c = "0" -> 0 [] c = "1" -> 1 [] c = "2" -> 2 [] c = "3" -> 3
      [] c = "4" -> 4 [] c = "5" -> 5 [] c = "6" -> 6 [] c = "7" -> 7
      [] c = "8" -> 8 [] c = "9" -> 9

DigitChar(v) ==
    CASE v = 0 -> "0" [] v = 1 -> "1" [] v = 2 -> "2" [] v = 3 -> "3"
      [] v = 4 -> "4" [] v = 5 -> "5" [] v = 6 -> "6" [] v = 7 -> "7"
      [] v = 8 -> "8" [] v = 9 -> "9"

\* str(n) for n >= 0, as the kernel writes a counter
RECURSIVE DecStr(_)
DecStr(n) == IF n < 10 THEN <<DigitChar(n)>>
             ELSE Append(DecStr(n \div 10), DigitChar(n % 10))

\* the text s[i..] with leading whitespace dropped, cut into maximal runs
\* of non-whitespace: str.split() with no argument
RECURSIVE SplitFrom(_, _, _, _)
SplitFrom(s, i, cur, acc) ==
    IF i > Len(s) THEN (IF cur = <<>> THEN acc ELSE Append(acc, cur))
    ELSE IF s[i] \in Whitespace
         THEN SplitFrom(s, i + 1, <<>>, IF cur = <<>> THEN acc ELSE Append(acc, cur))
         ELSE SplitFrom(s, i + 1, Append(cur, s[i]), acc)

split(s) == SplitFrom(s, 1, <<>>, <<>>)

\* str.strip(): leading and trailing whitespace removed
RECURSIVE lstrip(_)
lstrip(s) == IF s # <<>> /\ s[1] \in Whitespace THEN lstrip(Tail(s)) ELSE s

RECURSIVE rstrip(_)
rstrip(s) == IF s # <<>> /\ s[Len(s)] \in Whitespace
             THEN rstrip(SubSeq(s, 1, Len(s) - 1)) ELSE s

strip(s) == rstrip(lstrip(s))

\* int(text) strips whitespace and accepts an optional sign followed by
\* decimal digits; anything else raises ValueError (IsInt is FALSE)
Unsigned(t) == IF t # <<>> /\ t[1] \in {"+", "-"} THEN Tail(t) ELSE t
IsInt(text) == LET u == Unsigned(strip(text))
               IN  u # <<>> /\ \A k \in 1..Len(u) : u[k] \in Digits

RECURSIVE DigitsVal(_, _)
DigitsVal(u, k) == IF k = 0 THEN 0 ELSE 10 * DigitsVal(u, k - 1) + DigitVal(u[k])

int(text) == LET t == strip(text)
                 u == Unsigned(t)
                 v == DigitsVal(u, Len(u))
             IN  IF t[1] = "-" THEN -v ELSE v

\* str.find(c) and str.rfind(c) for a single character c, as a position
\* counted from 1; 0 where Python returns -1
RECURSIVE FindFrom(_, _, _)
FindFrom(s, c, i) == IF i > Len(s) THEN 0
                     ELSE IF s[i] = c THEN i ELSE FindFrom(s, c, i + 1)

find(s, c) == FindFrom(s, c, 1)

RECURSIVE RFindFrom(_, _, _)
RFindFrom(s, c, i) == IF i = 0 THEN 0
                      ELSE IF s[i] = c THEN i ELSE RFindFrom(s, c, i - 1)

rfind(s, c) == RFindFrom(s, c, Len(s))

\* tokens joined by single blanks
RECURSIVE Join(_)
Join(toks) == IF toks = <<>> THEN <<>>
              ELSE IF Len(toks) = 1 THEN toks[1]
              ELSE toks[1] \o <<" ">> \o Join(Tail(toks))

-----
(* CPUSnapshot, read_cpu_stat, calculate_cpu_usage *)

CPUSnapshot(user, nice, system, idle, iowait, irq, softirq, steal, guest, guest_nice) ==
    [user |-> user, nice |-> nice, system |-> system, idle |-> idle,
     iowait |-> iowait, irq |-> irq, softirq |-> softirq, steal |-> steal,
     guest |-> guest, guest_nice |-> guest_nice]

total(s) == s.user + s.nice + s.system + s.idle + s.iowait + s.irq
            + s.softirq + s.steal + s.guest + s.guest_nice

active(s) == total(s) - s.idle

\* core.py:77, first disjunct
TooFewParts(parts) == Len(parts) < 11

\* read_cpu_stat on the current /proc/stat.  parts is indexed from 1 here,
\* so Python's parts[k] is parts[k + 1].
read_cpu_stat(file) ==
    IF ~file.open THEN IOError
    ELSE LET parts == split(file.text)
         IN  IF TooFewParts(parts) \/ parts[1] # <<"c", "p", "u">> THEN IOError   \* core.py:77-78
             ELSE IF \E k \in 2..9 : ~IsInt(parts[k]) THEN IOError
             ELSE IF Len(parts) > 9 /\ ~IsInt(parts[10]) THEN IOError
             ELSE IF Len(parts) > 10 /\ ~IsInt(parts[11]) THEN IOError
             ELSE Ok(CPUSnapshot(
                       int(parts[2]), int(parts[3]), int(parts[4]), int(parts[5]),
                       int(parts[6]), int(parts[7]), int(parts[8]), int(parts[9]),
                       IF Len(parts) > 9 THEN int(parts[10]) ELSE 0,
                       IF Len(parts) > 10 THEN int(parts[11]) ELSE 0))

\* calculate_cpu_usage without the upper clamp of core.py:121
cpu_percent_of_unclamped(s1, s2) ==
    LET total_diff == total(s2) - total(s1)
    IN  IF total_diff = 0 THEN Zero
        ELSE RatMax(Zero, Rat(((total_diff - (s2.idle - s1.idle))) * 100, total_diff))

\* core.py:113-121
cpu_percent_of(s1, s2) ==
    LET total_diff == total(s2) - total(s1)
    IN  IF total_diff = 0 THEN Zero
        ELSE LET idle_diff == s2.idle - s1.idle
                 active_diff == total_diff - idle_diff
                 cpu_percent == Rat(active_diff * 100, total_diff)
             IN  RatMax(Zero, RatMin(Hundred, cpu_percent))

-----------------------------------------------------------------------------
(* What /proc/stat can hold *)

CpuLabel == <<"c", "p", "u">>

\* a counter line: the label, two blanks, the fields, a newline
CpuLine(label, fields) ==
    label \o (IF fields = <<>> THEN <<>> ELSE <<" ", " ">> \o Join(fields)) \o <<"\n">>

\* nf counter fields: user = u, idle = i, every other counter 0
CounterFields(nf, u, i) ==
    [k \in 1..nf |-> IF k = 1 THEN DecStr(u) ELSE IF k = 4 THEN DecStr(i) ELSE <<"0">>]

\* the counter fields with field p replaced by a token that is not a number
WithBadField(fields, p) == [fields EXCEPT ![p] = <<"x">>]

Numbers(seq) == [k \in 1..Len(seq) |-> DecStr(seq[k])]

TestStat1 == CpuLine(CpuLabel, Numbers(<<100, 10, 50, 500, 20, 5, 10, 0, 0, 0>>))
TestStat2 == CpuLine(CpuLabel, Numbers(<<200, 20, 100, 600, 40, 10, 20, 0, 0, 0>>))

CpuTexts ==
    {<<>>, TestStat1, TestStat2,
     <<"i", "n", "v", "a", "l", "i", "d", " ", "f", "o", "r", "m", "a", "t", "\n">>,
     CpuLine(<<"c", "p", "u", "0">>, CounterFields(10, 1, 1))}
    \cup {CpuLine(CpuLabel, CounterFields(nf, u, i)) :
              nf \in 7..MaxFields, u \in 0..MaxTick, i \in 0..MaxTick}
    \cup UNION {{CpuLine(CpuLabel, WithBadField(CounterFields(nf, 1, 1), p)) :
                     p \in {1, 8, 9, 10, MaxFields} \cap 1..nf} :
                 nf \in {8, 10, MaxFields}}

CpuFiles == {NoFile} \cup {File(t) : t \in CpuTexts}

-----------------------------------------------------------------------------
(* SpecCpu: calculate_cpu_usage, one step per read, with the counters      *)
(* moving during time.sleep                                                *)

NoSnapshot == CPUSnapshot(0, 0, 0, 0, 0, 0, 0, 0, 0, 0)

InitCpu ==
    /\ procStat \in CpuFiles
    /\ cpuPc = "read1"
    /\ readOut = NotCalled
    /\ snapshot1 = NoSnapshot
    /\ snapshot2 = NoSnapshot
    /\ cpuOut = NotCalled

\* core.py:109
CpuRead1 ==
    /\ cpuPc = "read1"
    /\ readOut' = read_cpu_stat(procStat)
    /\ IF IsOk(readOut')
       THEN /\ snapshot1' = readOut'.value
            /\ cpuPc' = "sleep"
            /\ cpuOut' = cpuOut
       ELSE /\ snapshot1' = snapshot1
            /\ cpuPc' = "done"
            /\ cpuOut' = IOError
    /\ UNCHANGED <<procStat, snapshot2>>
    /\ UNCHANGED notCpu

\* core.py:110: the kernel rewrites /proc/stat while the caller sleeps
CpuSleep ==
    /\ cpuPc = "sleep"
    /\ procStat' \in CpuFiles
    /\ cpuPc' = "read2"
    /\ UNCHANGED <<readOut, snapshot1, snapshot2, cpuOut>>
    /\ UNCHANGED notCpu

\* core.py:111-121
CpuRead2 ==
    /\ cpuPc = "read2"
    /\ readOut' = read_cpu_stat(procStat)
    /\ IF IsOk(readOut')
       THEN /\ snapshot2' = readOut'.value
            /\ cpuOut' = Ok(cpu_percent_of(snapshot1, readOut'.value))
       ELSE /\ snapshot2' = snapshot2
            /\ cpuOut' = IOError
    /\ cpuPc' = "done"
    /\ UNCHANGED <<procStat, snapshot1>>
    /\ UNCHANGED notCpu

NextCpu == CpuRead1 \/ CpuSleep \/ CpuRead2

-----------------------------------------------------------------------------
(* read_process_stat *)

NoStat == [kind |-> "None"]     \* read_process_stat returned None

\* core.py:151 with find in place of rfind: the record cut at the first ')'
end_paren_first(text) == find(text, ")")

\* core.py:151
end_paren_of(text) == rfind(text, ")")

\* read_process_stat on the file /proc/[pid]/stat.  Positions count from
\* 1: name_part is text[1..end_paren], Python's parts[11] is parts[12].
read_process_stat(file) ==
    IF ~file.open THEN NoStat                                   \* core.py:185
    ELSE LET text == file.text
             end_paren == end_paren_of(text)
         IN  IF end_paren = 0 THEN NoStat                       \* core.py:152
             ELSE LET name_part == SubSeq(text, 1, end_paren)
                      rest_part == strip(SubSeq(text, end_paren + 1, Len(text)))
                      space_idx == find(name_part, " ")
                  IN  IF space_idx = 0 THEN NoStat              \* core.py:160
                      ELSE IF ~IsInt(SubSeq(name_part, 1, space_idx - 1))
                           THEN NoStat                          \* core.py:171
                      ELSE LET parsed_pid == int(SubSeq(name_part, 1, space_idx - 1))
                               name_start == find(name_part, "(")
                               name_end == rfind(name_part, ")")
                               parts == split(rest_part)
                           IN  IF name_start = 0 \/ name_end = 0 THEN NoStat
                               ELSE IF Len(parts) < 13 THEN NoStat      \* core.py:176
                               ELSE IF ~IsInt(parts[12]) \/ ~IsInt(parts[13])
                                    THEN NoStat                         \* core.py:185
                               ELSE Ok([pid |-> parsed_pid,
                                        name |-> SubSeq(name_part, name_start + 1, name_end - 1),
                                        utime |-> int(parts[12]),
                                        stime |-> int(parts[13])])

-----------------------------------------------------------------------------
(* What /proc/[pid]/stat can hold *)

\* the fields after the name: state, then numbers; the 12th is utime and
\* the 13th stime, the 14th (cutime) is 9
StatFields(nf, utime, stime) ==
    [k \in 1..nf |-> IF k = 1 THEN <<"S">>
                     ELSE IF k = 12 THEN utime
                     ELSE IF k = 13 THEN stime
                     ELSE IF k = 14 THEN <<"9">>
                     ELSE <<"0">>]

\* the record the kernel writes: pid, blank, (name), blank, the fields
StatText(pid, name, fields) ==
    pid \o <<" ", "(">> \o name \o <<")">>
        \o (IF fields = <<>> THEN <<>> ELSE <<" ">> \o Join(fields)) \o <<"\n">>

NameChars == {"a", " ", "(", ")"}

RECURSIVE SeqsUpTo(_, _)
SeqsUpTo(S, n) ==
    IF n = 0 THEN {<<>>}
    ELSE LET shorter == SeqsUpTo(S, n - 1)
         IN  shorter \cup {Append(q, c) : q \in shorter, c \in S}

StatTexts ==
    {StatText(pid, name, StatFields(nf, ut, <<"7">>)) :
         pid \in {<<"1">>, <<"4", "2">>},
         name \in SeqsUpTo(NameChars, MaxNameLen),
         nf \in 12..MaxStatFields,
         ut \in {<<"5">>, <<"3", "0">>}}
    \cup {StatText(<<"7">>, <<"a">>, StatFields(13, ut, st)) :
              ut \in {<<"5">>, <<"x">>}, st \in {<<"7">>, <<"-">>}}
    \cup {<<>>,
          <<"7", " ", "a", " ", "S", "\n">>,
          <<"7", "(", "a", ")", " ">> \o Join(StatFields(13, <<"5">>, <<"7">>)),
          <<"x", " ", "(", "a", ")", " ">> \o Join(StatFields(13, <<"5">>, <<"7">>)),
          <<"7", " ", "a", ")", " ">> \o Join(StatFields(13, <<"5">>, <<"7">>)),
          <<"7", " ", "(", "a", " ">> \o Join(StatFields(13, <<"5">>, <<"7">>))}

StatFiles == {NoFile} \cup {File(t) : t \in StatTexts}

-----------------------------------------------------------------------------
(* SpecStat: one call of read_process_stat *)

InitStat ==
    /\ content \in StatFiles
    /\ statPc = "call"
    /\ statOut = NotCalled

\* core.py:136-186
ReadProcessStat ==
    /\ statPc = "call"
    /\ statOut' = read_process_stat(content)
    /\ statPc' = "done"
    /\ UNCHANGED content
    /\ UNCHANGED notStat

NextStat == ReadProcessStat

-----------------------------------------------------------------------------
(* ProcessInfo, read_process_uid, get_username *)

ProcessInfo(pid, name, user, cpu_percent) ==
    [pid |-> pid, name |-> name, user |-> user, cpu_percent |-> cpu_percent]

NoUid == [kind |-> "None"]      \* read_process_uid returned None

\* line.startswith('Uid:')
StartsWithUid(line) == Len(line) >= 4 /\ SubSeq(line, 1, 4) = <<"U", "i", "d", ":">>

\* core.py:199-203 over the lines of an opened status file
RECURSIVE UidFromLines(_)
UidFromLines(lines) ==
    IF lines = <<>> THEN NoUid
    ELSE IF StartsWithUid(Head(lines)) /\ Len(split(Head(lines))) >= 2
         THEN IF IsInt(split(Head(lines))[2])
              THEN Ok(int(split(Head(lines))[2]))
              ELSE NoUid                            \* ValueError, core.py:204
         ELSE UidFromLines(Tail(lines))

\* read_process_uid on /proc/[pid]/status; the file is NoFile or its lines
read_process_uid(file) ==
    IF ~file.open THEN NoUid ELSE UidFromLines(file.text)

\* the account database: uid -> name for the uids that resolve
Passwd == [u \in {0, 1000} |-> IF u = 0 THEN <<"r", "o", "o", "t">>
                               ELSE <<"a", "l">>]

\* a lookup that gives no name at all for a uid that does not resolve
get_username_blank(uid) == IF uid \in DOMAIN Passwd THEN Passwd[uid] ELSE <<>>

\* core.py:124-133
get_username(uid) == IF uid \in DOMAIN Passwd THEN Passwd[uid] ELSE DecStr(uid)

-----------------------------------------------------------------------------
(* What /proc can hold *)

Pids == 1..NumPids
ProcTicks == {150 * k : k \in 0..MaxProcTick}
Intervals == {1, 2}

NameOf(pid) == IF pid = 1 THEN <<"s", "h">>
               ELSE IF pid = 2 THEN <<"(", "s", "d", ")">>
               ELSE <<"k", " ", "w">>

UidOf(pid) == IF pid = 1 THEN 0 ELSE IF pid = 2 THEN 9999 ELSE 1000

\* the stat record of pid with utime + stime = t
StatRec(pid, t) ==
    File(StatText(DecStr(pid), NameOf(pid),
                  StatFields(14, DecStr(t - (t \div 3)), DecStr(t \div 3))))

\* a record cut short (the process was exiting while the kernel wrote it)
StatCut(pid) == File(StatText(DecStr(pid), NameOf(pid), StatFields(3, <<"0">>, <<"0">>)))

\* the status file of pid
StatusRec(pid) ==
    File(<<<<"N", "a", "m", "e", ":", "\t">> \o NameOf(pid) \o <<"\n">>,
           <<"U", "i", "d", ":", "\t">> \o DecStr(UidOf(pid)) \o <<"\t">>
               \o DecStr(UidOf(pid)) \o <<"\n">>>>)

\* a status file from which no uid can be read: refused for pid 1, without
\* a Uid line for pid 2, with a Uid line that holds no number otherwise
StatusBad(pid) ==
    IF pid = 1 THEN NoFile
    ELSE IF pid = 2 THEN File(<<<<"N", "a", "m", "e", ":", "\t">> \o NameOf(pid) \o <<"\n">>>>)
    ELSE File(<<<<"U", "i", "d", ":", "\n">>, <<"U", "i", "d", ":", "\t", "x", "\n">>>>)

Self == <<"s", "e", "l", "f">>

RECURSIVE Ascending(_)
Ascending(S) == IF S = {} THEN <<>>
                ELSE LET m == CHOOSE x \in S : \A y \in S : x <= y
                     IN  <<DecStr(m)>> \o Ascending(S \ {m})

RECURSIVE Descending(_)
Descending(S) == IF S = {} THEN <<>>
                 ELSE LET m == CHOOSE x \in S : \A y \in S : x >= y
                      IN  <<DecStr(m)>> \o Descending(S \ {m})

\* The kernel's view of one pid, from which it writes the files on each
\* read: stat is "none" (no such process), "refused" (open() fails: the
\* process exited after being listed, or permission is denied), "cut" (a
\* truncated record) or "rec" (a whole record with utime + stime = t);
\* status is "none", "ok" or "bad" (no uid can be read from it).
Gone == [stat |-> "none", t |-> 0, status |-> "none"]
Alive(e) == e.stat # "none"

EntriesAt1 ==
    {Gone}
    \cup {[stat |-> k, t |-> 0, status |-> "ok"] : k \in {"refused", "cut"}}
    \cup {[stat |-> "rec", t |-> t, status |-> u] : t \in ProcTicks, u \in {"ok", "bad"}}

EntriesAt2 == {Gone} \cup {[stat |-> "rec", t |-> t, status |-> "ok"] : t \in ProcTicks}

\* /proc cannot be opened at all: os.listdir raises OSError, as does every
\* open() below it
ProcUnlistable == [listable |-> FALSE, order |-> "asc", entry |-> [p \in Pids |-> Gone]]

\* /proc at the first pass
ProcInit ==
    {ProcUnlistable}
    \cup {[listable |-> TRUE, order |-> o, entry |-> e] :
              o \in {"asc", "desc"}, e \in [Pids -> EntriesAt1]}

\* /proc a sleep later: each pid is gone (or was never there) or has a whole
\* record
ProcLater(fs) == {[fs EXCEPT !.entry = e] : e \in [Pids -> EntriesAt2]}

\* os.listdir('/proc'): the live pids in the directory's order, and 'self'
listdir(fs) ==
    LET live == {p \in Pids : Alive(fs.entry[p])}
    IN  IF fs.order = "asc" THEN Ascending(live) \o <<Self>>
        ELSE <<Self>> \o Descending(live)

\* the file /proc/[pid]/stat as open() and read() give it
StatFile(fs, pid) ==
    IF pid \notin Pids THEN NoFile
    ELSE CASE fs.entry[pid].stat = "rec" -> StatRec(pid, fs.entry[pid].t)
           [] fs.entry[pid].stat = "cut" -> StatCut(pid)
           [] OTHER -> NoFile

\* the file /proc/[pid]/status
StatusFile(fs, pid) ==
    IF pid \notin Pids THEN NoFile
    ELSE CASE fs.entry[pid].status = "ok" -> StatusRec(pid)
           [] fs.entry[pid].status = "bad" -> StatusBad(pid)
           [] OTHER -> NoFile

-----------------------------------------------------------------------------
(* calculate_process_cpu_usage, get_top_processes *)

EmptyDict == [x \in {} |-> 0]
DictPut(d, k, v) == [x \in (DOMAIN d) \cup {k} |-> IF x = k THEN v ELSE d[x]]
DictGet(d, k, default) == IF k \in DOMAIN d THEN d[k] ELSE default

\* process_info_map[pid] = info on a dict that keeps insertion order
InfoPut(infos, info) ==
    IF \E i \in 1..Len(infos) : infos[i].pid = info.pid
    THEN [i \in 1..Len(infos) |-> IF infos[i].pid = info.pid THEN info ELSE infos[i]]
    ELSE Append(infos, info)

\* core.py:267-292 with the loop left at the first unusable record
RECURSIVE first_pass_abort(_, _, _, _)
first_pass_abort(fs, items, snap, infos) ==
    IF items = <<>> THEN [snapshot1 |-> snap, process_info_map |-> infos]
    ELSE LET item == Head(items)
         IN  IF ~IsInt(item) THEN first_pass_abort(fs, Tail(items), snap, infos)
             ELSE LET stat_data == read_process_stat(StatFile(fs, int(item)))
                  IN  IF ~IsOk(stat_data)
                      THEN [snapshot1 |-> snap, process_info_map |-> infos]
                      ELSE LET pid_val == stat_data.value.pid
                               total_time == stat_data.value.utime + stat_data.value.stime
                               snap2 == DictPut(snap, pid_val, total_time)
                               uid == read_process_uid(StatusFile(fs, pid_val))
                           IN  IF ~IsOk(uid)
                               THEN [snapshot1 |-> snap2, process_info_map |-> infos]
                               ELSE first_pass_abort(fs, Tail(items), snap2,
                                        InfoPut(infos, ProcessInfo(pid_val, stat_data.value.name,
                                                                   get_username(uid.value), Zero)))

\* core.py:267-292: the loop over os.listdir('/proc')
RECURSIVE first_pass(_, _, _, _)
first_pass(fs, items, snap, infos) ==
    IF items = <<>> THEN [snapshot1 |-> snap, process_info_map |-> infos]
    ELSE LET item == Head(items)
         IN  IF ~IsInt(item) THEN first_pass(fs, Tail(items), snap, infos)   \* core.py:270
             ELSE LET stat_data == read_process_stat(StatFile(fs, int(item)))
                  IN  IF ~IsOk(stat_data)
                      THEN first_pass(fs, Tail(items), snap, infos)          \* core.py:275
                      ELSE LET pid_val == stat_data.value.pid
                               total_time == stat_data.value.utime + stat_data.value.stime
                               snap2 == DictPut(snap, pid_val, total_time)
                               uid == read_process_uid(StatusFile(fs, pid_val))
                           IN  IF ~IsOk(uid)
                               THEN first_pass(fs, Tail(items), snap2, infos)   \* core.py:284
                               ELSE first_pass(fs, Tail(items), snap2,
                                        InfoPut(infos, ProcessInfo(pid_val, stat_data.value.name,
                                                                   get_username(uid.value), Zero)))

\* os.sysconf('SC_CLK_TCK'): not available, or the kernel's USER_HZ
NoSysconf == [avail |-> FALSE, value |-> 0]
Sysconfs == {NoSysconf, [avail |-> TRUE, value |-> 100]}

\* core.py:306, the fallback when SC_CLK_TCK cannot be asked for
DefaultClockTicks == 100

\* core.py:301-308
clock_ticks_of(sysconf) == IF sysconf.avail THEN sysconf.value ELSE DefaultClockTicks

\* core.py:323-325 with the result also capped at 100
proc_cpu_percent_capped(time_diff, clock_ticks, interval) ==
    RatMax(Zero, RatMin(Hundred, Rat(time_diff * 100, clock_ticks * interval)))

\* core.py:323-325
proc_cpu_percent(time_diff, clock_ticks, interval) ==
    RatMax(Zero, Rat(time_diff * 100, clock_ticks * interval))

\* core.py:313 with the processes found at the second snapshot added to
\* the ones remembered from the first
second_pass_infos_relisted(infos, fs) ==
    LET known == {infos[i].pid : i \in 1..Len(infos)}
        fresh == {p \in Pids \ known : IsOk(read_process_stat(StatFile(fs, p)))}
        RECURSIVE Added(_)
        Added(S) == IF S = {} THEN <<>>
                    ELSE LET m == CHOOSE x \in S : \A y \in S : x <= y
                         IN  <<ProcessInfo(m, NameOf(m), get_username(UidOf(m)), Zero)>>
                                 \o Added(S \ {m})
    IN  infos \o Added(fresh)

\* core.py:313: the second pass visits process_info_map.items()
second_pass_infos(infos, fs) == infos

\* core.py:311-328: the loop over the remembered processes
RECURSIVE second_pass(_, _, _, _, _, _)
second_pass(fs, infos, snap, clock_ticks, interval, acc) ==
    IF infos = <<>> THEN acc
    ELSE LET info == Head(infos)
             stat_data == read_process_stat(StatFile(fs, info.pid))
         IN  IF ~IsOk(stat_data)
             THEN second_pass(fs, Tail(infos), snap, clock_ticks, interval, acc)    \* core.py:316
             ELSE LET total_time2 == stat_data.value.utime + stat_data.value.stime
                      time_diff == total_time2 - DictGet(snap, info.pid, total_time2)
                  IN  second_pass(fs, Tail(infos), snap, clock_ticks, interval,
                          Append(acc, [info EXCEPT !.cpu_percent =
                                          proc_cpu_percent(time_diff, clock_ticks, interval)]))

\* x put into a list sorted by falling cpu_percent, before the entries
\* equal to it
RECURSIVE InsertBeforeEqual(_, _)
InsertBeforeEqual(sorted, x) ==
    IF sorted = <<>> THEN <<x>>
    ELSE IF RatLess(x.cpu_percent, Head(sorted).cpu_percent)
         THEN <<Head(sorted)>> \o InsertBeforeEqual(Tail(sorted), x)
         ELSE <<x>> \o sorted

\* x put into a list sorted by falling cpu_percent, after the entries equal
\* to it
RECURSIVE InsertAfterEqual(_, _)
InsertAfterEqual(sorted, x) ==
    IF sorted = <<>> THEN <<x>>
    ELSE IF RatLeq(x.cpu_percent, Head(sorted).cpu_percent)
         THEN <<Head(sorted)>> \o InsertAfterEqual(Tail(sorted), x)
         ELSE <<x>> \o sorted

\* the entries of list put one by one, in order, into acc, each before its
\* equals
RECURSIVE InsertAllBeforeEqual(_, _)
InsertAllBeforeEqual(list, acc) ==
    IF list = <<>> THEN acc
    ELSE InsertAllBeforeEqual(Tail(list), InsertBeforeEqual(acc, Head(list)))

\* the entries of list put one by one, in order, into acc, each after its
\* equals
RECURSIVE InsertAllAfterEqual(_, _)
InsertAllAfterEqual(list, acc) ==
    IF list = <<>> THEN acc
    ELSE InsertAllAfterEqual(Tail(list), InsertAfterEqual(acc, Head(list)))

\* a descending sort that turns the order of equal entries around
sort_reverse_unstable(list) == InsertAllBeforeEqual(list, <<>>)

\* the list left as enumerated
sort_reverse_none(list) == list

\* core.py:343: list.sort(key=cpu_percent, reverse=True), which is stable
sort_reverse(list) == InsertAllAfterEqual(list, <<>>)

\* core.py:344: processes[:n] for n >= 1
first_n(list, n) == SubSeq(list, 1, Min(n, Len(list)))

-----------------------------------------------------------------------------
(* SpecProc: get_top_processes, one step per pass over /proc, with the     *)
(* processes moving during time.sleep                                      *)

InitProc ==
    /\ proc1 \in ProcInit
    /\ proc2 = ProcUnlistable
    /\ procPc = "pass1"
    /\ arg_interval = 1
    /\ arg_n = 1
    /\ proc_snapshot1 = EmptyDict
    /\ process_info_map = <<>>
    /\ processes_with_usage = <<>>
    /\ processes = <<>>

\* core.py:262-295
ProcPass1 ==
    /\ procPc = "pass1"
    /\ IF proc1.listable
       THEN LET r == first_pass(proc1, listdir(proc1), EmptyDict, <<>>)
            IN  /\ proc_snapshot1' = r.snapshot1
                /\ process_info_map' = r.process_info_map
                /\ procPc' = "sleep"
       ELSE /\ UNCHANGED <<proc_snapshot1, process_info_map>>      \* core.py:295
            /\ procPc' = "sort"
    /\ UNCHANGED <<proc1, proc2, arg_interval, arg_n, processes_with_usage, processes>>
    /\ UNCHANGED notProc

\* core.py:298: the caller sleeps for interval while processes run, exit
\* and start
ProcSleep ==
    /\ procPc = "sleep"
    /\ arg_interval' \in Intervals
    /\ proc2' \in ProcLater(proc1)
    /\ procPc' = "pass2"
    /\ UNCHANGED <<proc1, arg_n, proc_snapshot1, process_info_map, processes_with_usage, processes>>
    /\ UNCHANGED notProc

\* core.py:300-328
ProcPass2 ==
    /\ procPc = "pass2"
    /\ \E sysconf \in Sysconfs :
          processes_with_usage' =
              second_pass(proc2, second_pass_infos(process_info_map, proc2), proc_snapshot1,
                          clock_ticks_of(sysconf), arg_interval, <<>>)
    /\ procPc' = "sort"
    /\ UNCHANGED <<proc1, proc2, arg_interval, arg_n, proc_snapshot1, process_info_map, processes>>
    /\ UNCHANGED notProc

\* core.py:343-344
TopSort ==
    /\ procPc = "sort"
    /\ arg_n' \in 1..MaxTop
    /\ processes' = first_n(sort_reverse(processes_with_usage), arg_n')
    /\ procPc' = "done"
    /\ UNCHANGED <<proc1, proc2, arg_interval, proc_snapshot1, process_info_map, processes_with_usage>>
    /\ UNCHANGED notProc

NextProc == ProcPass1 \/ ProcSleep \/ ProcPass2 \/ TopSort

-----------------------------------------------------------------------------
(* print_monitor *)

\* an optional number: --duration, --samples
Nothing == [has |-> FALSE, v |-> 0]
Some(v) == [has |-> TRUE, v |-> v]

\* cli.py:132, the duration when neither --duration nor --samples is given
DefaultDuration == 60

\* cli.py:154 and cli.py:157: each of the two samplers sleeps interval=1.0
CpuSampleSeconds == 1
ProcSampleSeconds == 1

MonIntervals == {1, 2}
Durations == {Nothing} \cup {Some(d) : d \in 1..MaxDuration}
SampleCounts == {Nothing} \cup {Some(k) : k \in 1..MaxSamples}
TopNs == {1, 2}

\* what one measurement can observe
CpuPercents == {<<10, 1>>, <<90, 1>>}
NoTemp == [has |-> FALSE, v |-> Zero]     \* get_max_temperature returned None
Temperatures == {NoTemp, Some(<<70, 1>>)}
ProcA(c) == ProcessInfo(1, <<"s", "h">>, <<"r", "o", "o", "t">>, <<c, 1>>)
ProcB(c) == ProcessInfo(2, <<"c", "c">>, <<"a", "l">>, <<c, 1>>)
TopLists(k) ==
    {<<>>, <<ProcA(50)>>} \cup (IF k >= 2 THEN {<<ProcB(30), ProcA(10)>>} ELSE {})

\* the measurements a run can hold before the model stops following it
MaxReadings == Max(MaxSamples, (MaxDuration + 1) \div 2)

\* the one element of a set of one element
The(S) == CHOOSE x \in S : TRUE

\* sum(list); the sum of the tail is worked out once and then added to
RECURSIVE RatSum(_)
RatSum(list) ==
    IF list = <<>> THEN Zero
    ELSE The({RatAdd(Head(list), rest) : rest \in {RatSum(Tail(list))}})

\* max(list) of a list that is not empty
RECURSIVE RatMaxOf(_)
RatMaxOf(list) ==
    IF Len(list) = 1 THEN list[1]
    ELSE The({RatMax(Head(list), rest) : rest \in {RatMaxOf(Tail(list))}})

\* sum(list) / len(list)
Mean(list) == LET s == RatSum(list) IN Rat(s[1], s[2] * Len(list))

\* cli.py:135, 159-162: all_processes[proc.pid] updated for one process; the
\* dict keeps insertion order
Aggregate(all, proc) ==
    IF \E i \in 1..Len(all) : all[i].pid = proc.pid
    THEN [i \in 1..Len(all) |->
            IF all[i].pid = proc.pid
            THEN [pid |-> proc.pid, name |-> proc.name, user |-> proc.user,
                  cpu_sum |-> RatAdd(all[i].cpu_sum, proc.cpu_percent),
                  count |-> all[i].count + 1]
            ELSE all[i]]
    ELSE Append(all, [pid |-> proc.pid, name |-> proc.name, user |-> proc.user,
                      cpu_sum |-> RatAdd(Zero, proc.cpu_percent), count |-> 1])

\* cli.py:158-162
RECURSIVE AggregateAll(_, _)
AggregateAll(all, procs) ==
    IF procs = <<>> THEN all ELSE AggregateAll(Aggregate(all, Head(procs)), Tail(procs))

\* cli.py:212-221
RECURSIVE ProcessAverages(_)
ProcessAverages(all) ==
    IF all = <<>> THEN <<>>
    ELSE LET data == Head(all)
         IN  (IF data.count > 0
              THEN <<ProcessInfo(data.pid, data.name, data.user,
                                 Rat(data.cpu_sum[1], data.cpu_sum[2] * data.count))>>
              ELSE <<>>) \o ProcessAverages(Tail(all))

\* what the summary of cli.py:196-228 prints
NoSummary == [kind |-> "none"]
SummaryOf(readings, temps, all, k) ==
    [kind |-> "summary",
     cpu |-> IF readings # <<>> THEN <<Mean(readings), RatMaxOf(readings)>> ELSE <<>>,
     temp |-> IF temps # <<>> THEN <<Mean(temps), RatMaxOf(temps)>> ELSE <<>>,
     top_avg |-> first_n(sort_reverse(ProcessAverages(all)), k)]

-----------------------------------------------------------------------------
(* SpecMon: one run of print_monitor.  monPc is the position in the loop:  *)
(* "start" (cli.py:130), "check" (cli.py:142), "measure" (cli.py:153),     *)
(* "wait" (cli.py:183), "summary" (cli.py:195), then "returned", or        *)
(* "exit130" after KeyboardInterrupt.                                      *)

InitMon ==
    /\ mon_interval \in MonIntervals
    /\ duration \in Durations
    /\ samples \in SampleCounts
    /\ top_n \in TopNs
    /\ show_temps \in BOOLEAN
    /\ raw \in BOOLEAN
    /\ monPc = "start"
    /\ now = 0
    /\ start_time = 0
    /\ cpu_readings = <<>>
    /\ all_processes = <<>>
    /\ temperatures = <<>>
    /\ sample_count = 0
    /\ warnings = 0
    /\ slept = FALSE
    /\ outcome = "none"
    /\ summary = NoSummary
    /\ interruptedMsg = FALSE

\* a start that leaves duration as given, also when no limit is given
MonStartNoDefault ==
    /\ monPc = "start"
    /\ start_time' = now
    /\ monPc' = "check"
    /\ UNCHANGED <<mon_interval, duration, samples, top_n, show_temps, raw, now, cpu_readings,
                   all_processes, temperatures, sample_count, warnings, slept, outcome,
                   summary, interruptedMsg>>
    /\ UNCHANGED notMon

\* cli.py:130-138
MonStart ==
    /\ monPc = "start"
    /\ duration' = IF ~duration.has /\ ~samples.has THEN Some(DefaultDuration) ELSE duration
    /\ start_time' = now
    /\ monPc' = "check"
    /\ UNCHANGED <<mon_interval, samples, top_n, show_temps, raw, now, cpu_readings,
                   all_processes, temperatures, sample_count, warnings, slept, outcome,
                   summary, interruptedMsg>>
    /\ UNCHANGED notMon

\* cli.py:142-150
MonCheck ==
    /\ monPc = "check"
    /\ monPc' = IF \/ duration.has /\ now - start_time >= duration.v
                   \/ samples.has /\ sample_count >= samples.v
                THEN "summary" ELSE "measure"
    /\ UNCHANGED <<mon_interval, duration, samples, top_n, show_temps, raw, now, start_time,
                   cpu_readings, all_processes, temperatures, sample_count, warnings, slept,
                   outcome, summary, interruptedMsg>>
    /\ UNCHANGED notMon

\* cli.py:153-177: a measurement that succeeds and observes one of cpus, one
\* of tops and one of temps; the two samplers sleep CpuSampleSeconds and
\* ProcSampleSeconds
MeasureStep(cpus, tops, temps) ==
    /\ monPc = "measure"
    /\ \E cpu_percent \in cpus, procs \in tops, temp \in temps :
          /\ cpu_readings' = Append(cpu_readings, cpu_percent)
          /\ all_processes' = AggregateAll(all_processes, procs)
          /\ temperatures' = IF show_temps /\ temp.has
                             THEN Append(temperatures, temp.v) ELSE temperatures
    /\ sample_count' = sample_count + 1
    /\ now' = now + CpuSampleSeconds + ProcSampleSeconds
    /\ slept' = FALSE
    /\ outcome' = "ok"
    /\ monPc' = "wait"
    /\ UNCHANGED <<mon_interval, duration, samples, top_n, show_temps, raw, start_time,
                   warnings, summary, interruptedMsg>>
    /\ UNCHANGED notMon

MonMeasure ==
    /\ sample_count < MaxReadings
    /\ now + CpuSampleSeconds + ProcSampleSeconds <= MaxClock
    /\ MeasureStep(CpuPercents, TopLists(top_n), Temperatures)

\* a failed measurement that ends the session with status 1, the way
\* cli.py:234-236 ends it for other exceptions
FailStepAborts(spents) ==
    /\ monPc = "measure"
    /\ \E spent \in spents : now' = now + spent
    /\ warnings' = warnings + 1
    /\ slept' = FALSE
    /\ outcome' = "IOError"
    /\ monPc' = "exit1"
    /\ UNCHANGED <<mon_interval, duration, samples, top_n, show_temps, raw, start_time,
                   cpu_readings, all_processes, temperatures, sample_count, summary,
                   interruptedMsg>>
    /\ UNCHANGED notMon

\* a failed measurement that is counted as a sample all the same
FailStepCounted(spents) ==
    /\ monPc = "measure"
    /\ \E spent \in spents : now' = now + spent
    /\ warnings' = warnings + 1
    /\ sample_count' = sample_count + 1
    /\ slept' = FALSE
    /\ outcome' = "IOError"
    /\ monPc' = "wait"
    /\ UNCHANGED <<mon_interval, duration, samples, top_n, show_temps, raw, start_time,
                   cpu_readings, all_processes, temperatures, summary, interruptedMsg>>
    /\ UNCHANGED notMon

\* a failed measurement that records 0.0 in place of the missing reading
FailStepDefaulted(spents) ==
    /\ monPc = "measure"
    /\ \E spent \in spents : now' = now + spent
    /\ warnings' = warnings + 1
    /\ cpu_readings' = Append(cpu_readings, Zero)
    /\ slept' = FALSE
    /\ outcome' = "IOError"
    /\ monPc' = "wait"
    /\ UNCHANGED <<mon_interval, duration, samples, top_n, show_temps, raw, start_time,
                   all_processes, temperatures, sample_count, summary, interruptedMsg>>
    /\ UNCHANGED notMon

\* cli.py:153-154, 179-181: calculate_cpu_usage raises IOError after spent
\* seconds: 0 at its first read, CpuSampleSeconds at its second read
FailStep(spents) ==
    /\ monPc = "measure"
    /\ \E spent \in spents : now' = now + spent
    /\ warnings' = warnings + 1
    /\ slept' = FALSE
    /\ outcome' = "IOError"
    /\ monPc' = "wait"
    /\ UNCHANGED <<mon_interval, duration, samples, top_n, show_temps, raw, start_time,
                   cpu_readings, all_processes, temperatures, sample_count, summary,
                   interruptedMsg>>
    /\ UNCHANGED notMon

MonMeasureFails ==
    /\ warnings < MaxWarnings
    /\ FailStep({s \in {0, CpuSampleSeconds} : now + s <= MaxClock})

\* cli.py:184-190: whether the loop calls time.sleep(interval)
WaitSleeps ==
    IF duration.has
    THEN (now - start_time) + mon_interval < duration.v
    ELSE samples.has /\ sample_count < samples.v

\* cli.py:183-193
WaitStep ==
    /\ monPc = "wait"
    /\ now' = IF WaitSleeps THEN now + mon_interval ELSE now
    /\ slept' = WaitSleeps
    /\ monPc' = IF ~duration.has /\ samples.has /\ sample_count >= samples.v
                THEN "summary" ELSE "check"
    /\ UNCHANGED <<mon_interval, duration, samples, top_n, show_temps, raw, start_time,
                   cpu_readings, all_processes, temperatures, sample_count, warnings,
                   outcome, summary, interruptedMsg>>
    /\ UNCHANGED notMon

MonWait ==
    /\ WaitSleeps => now + mon_interval <= MaxClock
    /\ WaitStep

\* cli.py:195-228
MonSummary ==
    /\ monPc = "summary"
    /\ summary' = IF raw THEN summary
                  ELSE SummaryOf(cpu_readings, temperatures, all_processes, top_n)
    /\ monPc' = "returned"
    /\ UNCHANGED <<mon_interval, duration, samples, top_n, show_temps, raw, now, start_time,
                   cpu_readings, all_processes, temperatures, sample_count, warnings, slept,
                   outcome, interruptedMsg>>
    /\ UNCHANGED notMon

\* cli.py:230-233: Ctrl-C while the loop runs
MonInterrupt ==
    /\ monPc \in {"check", "measure", "wait"}
    /\ interruptedMsg' = ~raw
    /\ monPc' = "exit130"
    /\ UNCHANGED <<mon_interval, duration, samples, top_n, show_temps, raw, now, start_time,
                   cpu_readings, all_processes, temperatures, sample_count, warnings, slept,
                   outcome, summary>>
    /\ UNCHANGED notMon

NextMon == MonStart \/ MonCheck \/ MonMeasure \/ MonMeasureFails \/ MonWait \/ MonSummary
           \/ MonInterrupt


-----------------------------------------------------------------------------
(* SpecMonLive: the sessions of print_monitor that a duration bounds, run   *)
(* to their end under weak fairness of the loop.  No Ctrl-C arrives, and    *)
(* every measurement, failed ones too, takes time: an IOError is raised at  *)
(* the second read of /proc/stat, after the sampler's sleep.  What a        *)
(* measurement observes has no part in the control flow and is held fixed.  *)

\* the latest time at which a session bounded by DefaultDuration or less can
\* start a measurement
LiveClockCap == DefaultDuration + CpuSampleSeconds + ProcSampleSeconds

InitMonLive ==
    /\ InitMon
    /\ duration.has \/ ~samples.has

MonMeasureLive ==
    /\ now < LiveClockCap
    /\ MeasureStep({<<10, 1>>}, {<<ProcA(50)>>}, {Some(<<70, 1>>)})

MonFailLive ==
    /\ now < LiveClockCap
    /\ FailStep({CpuSampleSeconds})

MonWaitLive == WaitStep

NextMonLive == MonStart \/ MonCheck \/ MonMeasureLive \/ MonFailLive \/ MonWaitLive
               \/ MonSummary

-----------------------------------------------------------------------------
(* sensors_integration.py: temperatures from sysfs and from lm-sensors *)

\* the degree sign U+00B0, one character of a text
Degree == "deg"

\* str.lower() of one character, as re.IGNORECASE compares
Lower(c) ==
    CASE
         c = "A" -> "a"
      [] c = "B" -> "b"
      [] c = "C" -> "c"
      [] c = "D" -> "d"
      [] c = "E" -> "e"
      [] c = "F" -> "f"
      [] c = "G" -> "g"
      [] c = "H" -> "h"
      [] c = "I" -> "i"
      [] c = "J" -> "j"
      [] c = "K" -> "k"
      [] c = "L" -> "l"
      [] c = "M" -> "m"
      [] c = "N" -> "n"
      [] c = "O" -> "o"
      [] c = "P" -> "p"
      [] c = "Q" -> "q"
      [] c = "R" -> "r"
      [] c = "S" -> "s"
      [] c = "T" -> "t"
      [] c = "U" -> "u"
      [] c = "V" -> "v"
      [] c = "W" -> "w"
      [] c = "X" -> "x"
      [] c = "Y" -> "y"
      [] c = "Z" -> "z"
      [] OTHER -> c

\* float(text): whitespace is stripped; an optional sign, then digits with at
\* most one point and a digit on one side of it at least; anything else
\* raises ValueError (the result is NoTemp).  Exponents, inf, nan and
\* underscores are not in any text of the model.
float(text) ==
    LET u == Unsigned(strip(text))
        neg == strip(text) # <<>> /\ strip(text)[1] = "-"
        dot == find(u, ".")
        whole == IF dot = 0 THEN u ELSE SubSeq(u, 1, dot - 1)
        frac == IF dot = 0 THEN <<>> ELSE SubSeq(u, dot + 1, Len(u))
        allDigits == \A k \in 1..Len(whole \o frac) : (whole \o frac)[k] \in Digits
        num == DigitsVal(whole \o frac, Len(whole \o frac))
        den == 10 ^ Len(frac)
    IN  IF whole \o frac # <<>> /\ allDigits
        THEN Some(Rat(IF neg THEN -num ELSE num, den))
        ELSE NoTemp

\* ---- read_sysfs_temperatures ----

\* a file /sys/class/thermal/thermal_zone*/temp that glob returned: gone by
\* the time it is opened, refused, or readable with some text
ZoneGone == [state |-> "missing", text |-> <<>>]
ZoneRefused == [state |-> "refused", text |-> <<>>]
Zone(text) == [state |-> "ok", text |-> text]

\* open(temp_file, 'r') and f.read()
open_zone(z) == IF z.state = "ok" THEN File(z.text) ELSE NoFile

\* sensors_integration.py:41-49 for one zone file: the reading appended, or
\* nothing when open() raises OSError or float() raises ValueError
zone_reading(z) ==
    LET f == open_zone(z)
    IN  IF ~f.open THEN <<>>
        ELSE LET temp_value == strip(f.text)
                 parsed == float(temp_value)
             IN  IF ~parsed.has THEN <<>>
                 ELSE <<Rat(parsed.v[1], parsed.v[2] * 1000)>>

\* a reader that gives up at the first zone file it cannot use
RECURSIVE read_sysfs_temperatures_strict(_)
read_sysfs_temperatures_strict(files) ==
    IF files = <<>> THEN <<>>
    ELSE IF zone_reading(Head(files)) = <<>> THEN <<>>
         ELSE zone_reading(Head(files)) \o read_sysfs_temperatures_strict(Tail(files))

\* sensors_integration.py:29-54, files being what glob.glob returned
RECURSIVE read_sysfs_temperatures(_)
read_sysfs_temperatures(files) ==
    IF files = <<>> THEN <<>>
    ELSE zone_reading(Head(files)) \o read_sysfs_temperatures(Tail(files))

\* ---- read_sensors_command ----

\* the pieces of the regular expressions of sensors_integration.py:81-86
Lit(s) == [k |-> "lit", s |-> s, cls |-> {}]
Plus(cls) == [k |-> "plus", s |-> <<>>, cls |-> cls]
Star(cls) == [k |-> "star", s |-> <<>>, cls |-> cls]
Opt(cls) == [k |-> "opt", s |-> <<>>, cls |-> cls]
GroupOpen == [k |-> "open", s |-> <<>>, cls |-> {}]
GroupClose == [k |-> "close", s |-> <<>>, cls |-> {}]

\* \+?(-?\d+\.?\d*)°?C, the end of all four expressions
ValuePart ==
    <<Opt({"+"}), GroupOpen, Opt({"-"}), Plus(Digits), Opt({"."}), Star(Digits), GroupClose,
      Opt({Degree}), Lit(<<"c">>)>>

\* sensors_integration.py:81-86, letters in lower case
cpu_temp_patterns ==
    << <<Lit(<<"c", "o", "r", "e">>), Plus(Whitespace), Plus(Digits), Lit(<<":">>),
         Plus(Whitespace)>> \o ValuePart,
       <<Lit(<<"c", "p", "u">>), Plus(Whitespace),
         Lit(<<"t", "e", "m", "p", "e", "r", "a", "t", "u", "r", "e">>),
         Plus(Whitespace \cup {":"})>> \o ValuePart,
       <<Lit(<<"t", "d", "i", "e">>), Plus(Whitespace \cup {":"})>> \o ValuePart,
       <<Lit(<<"p", "a", "c", "k", "a", "g", "e">>), Plus(Whitespace), Lit(<<"i", "d">>),
         Plus(Whitespace), Plus(Digits), Lit(<<":">>), Plus(Whitespace)>> \o ValuePart >>

\* the position after the longest run of characters of cls from position i
RECURSIVE RunEnd(_, _, _)
RunEnd(text, i, cls) ==
    IF i <= Len(text) /\ text[i] \in cls THEN RunEnd(text, i + 1, cls) ELSE i

\* text[i..] starts with lit, case ignored
StartsWith(text, i, lit) ==
    /\ i + Len(lit) - 1 <= Len(text)
    /\ \A k \in 1..Len(lit) : Lower(text[i + k - 1]) = lit[k]

NoMatch == [ok |-> FALSE, end |-> 0, from |-> 0, to |-> 0]

\* the match of pattern[k..] at position i of text, every repetition taking
\* all it can: in these expressions no repetition can hand a character back
\* to the piece that follows it, so this is the match re finds.  from and to
\* bound the group; end is the position after the match.
RECURSIVE MatchFrom(_, _, _, _, _, _)
MatchFrom(pattern, k, text, i, from, to) ==
    IF k > Len(pattern) THEN [ok |-> TRUE, end |-> i, from |-> from, to |-> to]
    ELSE LET p == pattern[k]
         IN  CASE p.k = "lit" ->
                    IF StartsWith(text, i, p.s)
                    THEN MatchFrom(pattern, k + 1, text, i + Len(p.s), from, to)
                    ELSE NoMatch
               [] p.k = "plus" ->
                    IF RunEnd(text, i, p.cls) > i
                    THEN MatchFrom(pattern, k + 1, text, RunEnd(text, i, p.cls), from, to)
                    ELSE NoMatch
               [] p.k = "star" ->
                    MatchFrom(pattern, k + 1, text, RunEnd(text, i, p.cls), from, to)
               [] p.k = "opt" ->
                    IF i <= Len(text) /\ text[i] \in p.cls
                    THEN MatchFrom(pattern, k + 1, text, i + 1, from, to)
                    ELSE MatchFrom(pattern, k + 1, text, i, from, to)
               [] p.k = "open" -> MatchFrom(pattern, k + 1, text, i, i, to)
               [] p.k = "close" -> MatchFrom(pattern, k + 1, text, i, from, i - 1)

\* re.findall(pattern, text, re.IGNORECASE): the groups of the matches found
\* from left to right, none overlapping another
RECURSIVE FindAllFrom(_, _, _, _)
FindAllFrom(pattern, text, i, acc) ==
    LET starts == {j \in i..Len(text) : MatchFrom(pattern, 1, text, j, 0, 0).ok}
    IN  IF starts = {} THEN acc
        ELSE LET first == CHOOSE j \in starts : \A k \in starts : j <= k
                 r == MatchFrom(pattern, 1, text, first, 0, 0)
             IN  FindAllFrom(pattern, text, r.end, Append(acc, SubSeq(text, r.from, r.to)))

findall(pattern, text) == FindAllFrom(pattern, text, 1, <<>>)

\* sensors_integration.py:91-96: float() of every match, ValueError skipped
RECURSIVE FloatsOf(_)
FloatsOf(matches) ==
    IF matches = <<>> THEN <<>>
    ELSE (IF float(Head(matches)).has THEN <<float(Head(matches)).v>> ELSE <<>>)
             \o FloatsOf(Tail(matches))

\* sensors_integration.py:88-96
RECURSIVE MatchedTemps(_, _)
MatchedTemps(patterns, output) ==
    IF patterns = <<>> THEN <<>>
    ELSE FloatsOf(findall(Head(patterns), output)) \o MatchedTemps(Tail(patterns), output)

\* what subprocess.run(['sensors'], timeout=5) does: the tool is not
\* installed (FileNotFoundError), runs too long (TimeoutExpired), or exits
ToolAbsent == [kind |-> "absent", returncode |-> 0, stdout |-> <<>>]
ToolTimeout == [kind |-> "timeout", returncode |-> 0, stdout |-> <<>>]
ToolExit(code, out) == [kind |-> "exit", returncode |-> code, stdout |-> out]

\* a reader that returns the first match
read_sensors_command_first(run) ==
    IF run.kind # "exit" THEN NoTemp
    ELSE IF run.returncode # 0 THEN NoTemp
    ELSE LET cpu_temps == MatchedTemps(cpu_temp_patterns, run.stdout)
         IN  IF cpu_temps # <<>> THEN Some(cpu_temps[1]) ELSE NoTemp

\* sensors_integration.py:57-108
read_sensors_command(run) ==
    IF run.kind # "exit" THEN NoTemp
    ELSE IF run.returncode # 0 THEN NoTemp
    ELSE LET cpu_temps == MatchedTemps(cpu_temp_patterns, run.stdout)
         IN  IF cpu_temps # <<>> THEN Some(RatMaxOf(cpu_temps)) ELSE NoTemp

\* ---- get_max_temperature ----

\* the sysfs reading when there is one, the tool's reading otherwise
max_of_sources_fallback(temps, tool_temp) ==
    IF temps # <<>> THEN Some(RatMaxOf(temps)) ELSE tool_temp

\* sensors_integration.py:121-135
max_of_sources(temps, tool_temp) ==
    LET max_sysfs_temp == IF temps # <<>> THEN Some(RatMaxOf(temps)) ELSE NoTemp
        available_temps == (IF max_sysfs_temp.has THEN <<max_sysfs_temp.v>> ELSE <<>>)
                           \o (IF tool_temp.has THEN <<tool_temp.v>> ELSE <<>>)
    IN  IF available_temps # <<>> THEN Some(RatMaxOf(available_temps)) ELSE NoTemp

-----------------------------------------------------------------------------
(* What the thermal zones and the sensors tool can hold *)

ZoneTexts ==
    {<<"5", "0", "0", "0", "0", "\n">>, <<"5", "5", "0", "0", "0", "\n">>,
     <<"4", "8", "0", "0", "0", "\n">>, <<"n", "/", "a", "\n">>}

ZoneFiles == {ZoneGone, ZoneRefused} \cup {Zone(t) : t \in ZoneTexts}

\* what glob.glob returns, in its order: up to MaxZones zone files
ZoneLists == UNION {[1..k -> ZoneFiles] : k \in 0..MaxZones}

\* the output of the test of tests/test_sensors.py:57-82
SensorsTestOutput ==
    <<"c", "o", "r", "e", "t", "e", "m", "p", "-", "i", "s", "a", "-", "0",
      "0", "0", "0", "\n", "A", "d", "a", "p", "t", "e", "r", ":", " ",
      "I", "S", "A", " ", "a", "d", "a", "p", "t", "e", "r", "\n", "P",
      "a", "c", "k", "a", "g", "e", " ", "i", "d", " ", "0", ":", " ", " ",
      "+", "4", "5", ".", "0", Degree, "C", " ", " ", "(", "h", "i", "g",
      "h", " ", "=", " ", "+", "8", "0", ".", "0", Degree, "C", ",", " ",
      "c", "r", "i", "t", " ", "=", " ", "+", "1", "0", "0", ".", "0",
      Degree, "C", ")", "\n", "C", "o", "r", "e", " ", "0", ":", " ", " ",
      " ", " ", " ", " ", " ", "+", "4", "2", ".", "0", Degree, "C", " ",
      " ", "(", "h", "i", "g", "h", " ", "=", " ", "+", "8", "0", ".", "0",
      Degree, "C", ",", " ", "c", "r", "i", "t", " ", "=", " ", "+", "1",
      "0", "0", ".", "0", Degree, "C", ")", "\n", "C", "o", "r", "e", " ",
      "1", ":", " ", " ", " ", " ", " ", " ", " ", "+", "4", "3", ".", "0",
      Degree, "C", " ", " ", "(", "h", "i", "g", "h", " ", "=", " ", "+",
      "8", "0", ".", "0", Degree, "C", ",", " ", "c", "r", "i", "t", " ",
      "=", " ", "+", "1", "0", "0", ".", "0", Degree, "C", ")", "\n">>

\* two cores and the die, the hottest neither the first nor the last match
SensorsMiddleOutput ==
    <<"C", "o", "r", "e", " ", "0", ":", " ", "+", "4", "5", ".", "0",
      Degree, "C", "\n", "C", "o", "r", "e", " ", "1", ":", " ", "+", "5",
      "8", ".", "0", Degree, "C", "\n", "t", "d", "i", "e", ":", "\t", "+",
      "5", "0", ".", "0", Degree, "C", "\n">>

\* one labelled reading
SensorsTdieOutput ==
    <<"k", "1", "0", "t", "e", "m", "p", "-", "p", "c", "i", "-", "0", "0",
      "c", "3", "\n", "T", "d", "i", "e", ":", " ", " ", " ", " ", " ",
      " ", " ", " ", " ", "+", "6", "1", ".", "2", Degree, "C", " ", " ",
      "(", "h", "i", "g", "h", " ", "=", " ", "+", "7", "0", ".", "0",
      Degree, "C", ")", "\n">>

\* a board label in upper case and a reading below zero
SensorsBoardOutput ==
    <<"C", "P", "U", " ", "T", "E", "M", "P", "E", "R", "A", "T", "U", "R",
      "E", ":", " ", "-", "5", ".", "0", Degree, "C", "\n", "C", "P", "U",
      " ", "T", "e", "m", "p", "e", "r", "a", "t", "u", "r", "e", " ", "+",
      "4", "0", "C", "\n">>

\* readings none of which carries a label the expressions know
SensorsNoLabelOutput ==
    <<"f", "a", "n", "1", ":", " ", " ", " ", " ", " ", " ", " ", " ", "1",
      "2", "0", "0", " ", "R", "P", "M", "\n", "t", "e", "m", "p", "1",
      ":", " ", " ", " ", " ", " ", " ", " ", " ", "+", "3", "8", ".", "0",
      Degree, "C", "\n", "c", "o", "r", "e", "t", "e", "m", "p", "-", "i",
      "s", "a", "-", "0", "0", "0", "0", "\n">>

SensorsOutputs ==
    {SensorsTestOutput, SensorsMiddleOutput, SensorsTdieOutput, SensorsBoardOutput,
     SensorsNoLabelOutput}

ToolRuns ==
    {ToolAbsent, ToolTimeout, ToolExit(1, <<>>), ToolExit(2, SensorsTdieOutput)}
    \cup {ToolExit(0, out) : out \in SensorsOutputs}

-----------------------------------------------------------------------------
(* SpecSensors: one call of get_max_temperature.  sensPc is the position:  *)
(* "sysfs" (sensors_integration.py:119), "sensors" (:127), "max" (:130),    *)
(* then "done".                                                             *)

InitSensors ==
    /\ zones \in ZoneLists
    /\ tool \in ToolRuns
    /\ sensPc = "sysfs"
    /\ queried = {}
    /\ sysfs_temps = <<>>
    /\ sensors_temp = NoTemp
    /\ maxOut = NoTemp

\* sensors_integration.py:119
SensReadSysfs ==
    /\ sensPc = "sysfs"
    /\ sysfs_temps' = read_sysfs_temperatures(zones)
    /\ queried' = queried \cup {"sysfs"}
    /\ sensPc' = "sensors"
    /\ UNCHANGED <<zones, tool, sensors_temp, maxOut>>
    /\ UNCHANGED notSens

\* sensors_integration.py:127
SensReadSensors ==
    /\ sensPc = "sensors"
    /\ sensors_temp' = read_sensors_command(tool)
    /\ queried' = queried \cup {"sensors"}
    /\ sensPc' = "max"
    /\ UNCHANGED <<zones, tool, sysfs_temps, maxOut>>
    /\ UNCHANGED notSens

\* sensors_integration.py:121-135
SensMax ==
    /\ sensPc = "max"
    /\ maxOut' = max_of_sources(sysfs_temps, sensors_temp)
    /\ sensPc' = "done"
    /\ UNCHANGED <<zones, tool, queried, sysfs_temps, sensors_temp>>
    /\ UNCHANGED notSens

NextSensors == SensReadSysfs \/ SensReadSensors \/ SensMax

-----------------------------------------------------------------------------
(* print_snapshot *)

\* an optional text: what get_temperature_summary returns
NoText == [has |-> FALSE, text |-> <<>>]
SomeText(t) == [has |-> TRUE, text |-> t]

\* U+C9F8, the character written before 'C' in the literals of cli.py:108,
\* cli.py:176 and cli.py:208-209; it is not the degree sign
Hangul == "jjae"

\* f"{x:.1f}" of the rational x: x rounded to tenths, halves to even
Format1f(x) ==
    LET n == Abs(x[1])
        tenths == (n * 10) \div x[2]
        rest == (n * 10) % x[2]
        up == 2 * rest > x[2] \/ (2 * rest = x[2] /\ tenths % 2 = 1)
        t == IF up THEN tenths + 1 ELSE tenths
    IN  (IF x[1] < 0 /\ t > 0 THEN <<"-">> ELSE <<>>)
            \o DecStr(t \div 10) \o <<".">> \o <<DigitChar(t % 10)>>

\* sensors_integration.py:138-147, temp being what get_max_temperature
\* returned
get_temperature_summary(temp) ==
    IF temp.has THEN SomeText(Format1f(temp.v) \o <<Degree, "C">>) ELSE NoText

\* str.replace(old, new) for a text old that is not empty
RECURSIVE replace(_, _, _)
replace(text, old, new) ==
    IF Len(text) < Len(old) THEN text
    ELSE IF SubSeq(text, 1, Len(old)) = old
         THEN new \o replace(SubSeq(text, Len(old) + 1, Len(text)), old, new)
         ELSE <<Head(text)>> \o replace(Tail(text), old, new)

\* cli.py:94: the processes above 5.0 percent
RECURSIVE high_cpu_procs(_)
high_cpu_procs(procs) ==
    IF procs = <<>> THEN <<>>
    ELSE (IF RatLess(<<5, 1>>, Head(procs).cpu_percent) THEN <<Head(procs)>> ELSE <<>>)
             \o high_cpu_procs(Tail(procs))

\* a line written to stdout or stderr; v is what it shows
Line(k, v) == [k |-> k, v |-> v]

\* cli.py:94-114: the line under "--- Summary ---", or the ValueError that
\* float() raises at cli.py:108
summary_line(cpu, procs, temp) ==
    LET high == high_cpu_procs(procs)
        proc_names == [i \in 1..Min(3, Len(high)) |-> high[i].name]
    IN  IF high # <<>> THEN Ok(Line("high_processes", proc_names))
        ELSE IF RatLess(<<50, 1>>, cpu) THEN Ok(Line("high_cpu", <<>>))
        ELSE IF temp.has /\ temp.text # <<>>
             THEN LET temp_val == float(replace(temp.text, <<Hangul, "C">>, <<>>))
                  IN  IF ~temp_val.has THEN [kind |-> "ValueError"]
                      ELSE IF RatLess(<<70, 1>>, temp_val.v)
                           THEN Ok(Line("high_temperature", temp.text))
                           ELSE Ok(Line("normal", <<>>))
             ELSE Ok(Line("normal_no_temperature", <<>>))

\* cli.py:76-80
RECURSIVE raw_process_lines(_)
raw_process_lines(procs) ==
    IF procs = <<>> THEN <<>>
    ELSE <<Line("process", [pid |-> Head(procs).pid, name |-> Head(procs).name,
                            user |-> Head(procs).user,
                            cpu |-> Format1f(Head(procs).cpu_percent)])>>
             \o raw_process_lines(Tail(procs))

\* cli.py:76-80
raw_output(cpu, procs, temp) ==
    <<Line("cpu", Format1f(cpu))>>
        \o (IF temp.has /\ temp.text # <<>> THEN <<Line("temperature", temp.text)>> ELSE <<>>)
        \o raw_process_lines(procs)

\* cli.py:83-93
formatted_output(cpu, procs, temp) ==
    <<Line("title", <<>>), Line("cpu", Format1f(cpu))>>
        \o (IF temp.has /\ temp.text # <<>> THEN <<Line("temperature", temp.text)>> ELSE <<>>)
        \o <<Line("top", Len(procs)), Line("table", procs), Line("summary_title", <<>>)>>

\* what the process has exited with; NotExited while it runs
NotExited == -1

-----------------------------------------------------------------------------
(* What one snapshot can observe *)

SnapArgs == [top_n : TopNs, show_temps : BOOLEAN, raw : BOOLEAN]
SnapCpuOutcomes == {IOError} \cup {Ok(c) : c \in CpuPercents}
SnapTopLists(k) == TopLists(k) \cup {<<ProcA(2)>>}
SnapTemperatures == Temperatures \cup {Some(<<143, 2>>)}

-----------------------------------------------------------------------------
(* SpecSnap: one run of print_snapshot.  snapPc is the position: "cpu"     *)
(* (cli.py:64), "processes" (cli.py:67), "temps" (cli.py:70), "print"      *)
(* (cli.py:74), then "returned" or "exited".                               *)

InitSnap ==
    /\ snapArgs \in SnapArgs
    /\ snapPc = "cpu"
    /\ snapCpu = NotCalled
    /\ snap_cpu_percent = Zero
    /\ snap_processes = <<>>
    /\ temp_summary = NoText
    /\ stdout = <<>>
    /\ stderr = <<>>
    /\ exit_status = NotExited

\* a snapshot that goes on with 0.0 when the counters cannot be read
SnapCpuDefaulted ==
    /\ snapPc = "cpu"
    /\ \E r \in SnapCpuOutcomes :
          /\ snapCpu' = r
          /\ snap_cpu_percent' = IF IsOk(r) THEN r.value ELSE Zero
    /\ snapPc' = "processes"
    /\ UNCHANGED <<snapArgs, snap_processes, temp_summary, stdout, stderr, exit_status>>
    /\ UNCHANGED notSnap

\* cli.py:64, and cli.py:116-118 when calculate_cpu_usage raises IOError
SnapCpu ==
    /\ snapPc = "cpu"
    /\ \E r \in SnapCpuOutcomes :
          /\ snapCpu' = r
          /\ IF IsOk(r)
             THEN /\ snap_cpu_percent' = r.value
                  /\ snapPc' = "processes"
                  /\ UNCHANGED <<stderr, exit_status>>
             ELSE /\ stderr' = Append(stderr, Line("error", "Failed to read system information"))
                  /\ exit_status' = 1
                  /\ snapPc' = "exited"
                  /\ UNCHANGED snap_cpu_percent
    /\ UNCHANGED <<snapArgs, snap_processes, temp_summary, stdout>>
    /\ UNCHANGED notSnap

\* cli.py:67
SnapProcesses ==
    /\ snapPc = "processes"
    /\ snap_processes' \in SnapTopLists(snapArgs.top_n)
    /\ snapPc' = "temps"
    /\ UNCHANGED <<snapArgs, snapCpu, snap_cpu_percent, temp_summary, stdout, stderr,
                   exit_status>>
    /\ UNCHANGED notSnap

\* cli.py:70-72
SnapTemps ==
    /\ snapPc = "temps"
    /\ IF snapArgs.show_temps
       THEN \E temp \in SnapTemperatures : temp_summary' = get_temperature_summary(temp)
       ELSE temp_summary' = NoText
    /\ snapPc' = "print"
    /\ UNCHANGED <<snapArgs, snapCpu, snap_cpu_percent, snap_processes, stdout, stderr,
                   exit_status>>
    /\ UNCHANGED notSnap

\* cli.py:74-114, and cli.py:122-124 when the summary raises ValueError
SnapPrint ==
    /\ snapPc = "print"
    /\ IF snapArgs.raw
       THEN /\ stdout' = stdout \o raw_output(snap_cpu_percent, snap_processes, temp_summary)
            /\ snapPc' = "returned"
            /\ exit_status' = 0
            /\ UNCHANGED stderr
       ELSE LET line == summary_line(snap_cpu_percent, snap_processes, temp_summary)
                shown == formatted_output(snap_cpu_percent, snap_processes, temp_summary)
            IN  IF IsOk(line)
                THEN /\ stdout' = stdout \o shown \o <<line.value>>
                     /\ snapPc' = "returned"
                     /\ exit_status' = 0
                     /\ UNCHANGED stderr
                ELSE /\ stdout' = stdout \o shown
                     /\ stderr' = Append(stderr, Line("error", "Unexpected error"))
                     /\ snapPc' = "exited"
                     /\ exit_status' = 1
    /\ UNCHANGED <<snapArgs, snapCpu, snap_cpu_percent, snap_processes, temp_summary>>
    /\ UNCHANGED notSnap

\* cli.py:119-121: Ctrl-C while the snapshot is taken
SnapInterrupt ==
    /\ snapPc \in {"cpu", "processes", "temps", "print"}
    /\ stderr' = Append(stderr, Line("error", "Interrupted by user."))
    /\ exit_status' = 130
    /\ snapPc' = "exited"
    /\ UNCHANGED <<snapArgs, snapCpu, snap_cpu_percent, snap_processes, temp_summary, stdout>>
    /\ UNCHANGED notSnap

NextSnap == SnapCpu \/ SnapProcesses \/ SnapTemps \/ SnapPrint \/ SnapInterrupt

-----------------------------------------------------------------------------
(* Specifications: each runs one part of the program, the other parts idle *)

CpuIdle ==
    /\ procStat = NoFile
    /\ cpuPc = "idle"
    /\ readOut = NotCalled
    /\ snapshot1 = NoSnapshot
    /\ snapshot2 = NoSnapshot
    /\ cpuOut = NotCalled

StatIdle ==
    /\ content = NoFile
    /\ statPc = "idle"
    /\ statOut = NotCalled

ProcIdle ==
    /\ proc1 = ProcUnlistable
    /\ proc2 = ProcUnlistable
    /\ procPc = "idle"
    /\ arg_interval = 1
    /\ arg_n = 1
    /\ proc_snapshot1 = EmptyDict
    /\ process_info_map = <<>>
    /\ processes_with_usage = <<>>
    /\ processes = <<>>

MonIdle ==
    /\ mon_interval = 1
    /\ duration = Nothing
    /\ samples = Nothing
    /\ top_n = 1
    /\ show_temps = FALSE
    /\ raw = FALSE
    /\ monPc = "idle"
    /\ now = 0
    /\ start_time = 0
    /\ cpu_readings = <<>>
    /\ all_processes = <<>>
    /\ temperatures = <<>>
    /\ sample_count = 0
    /\ warnings = 0
    /\ slept = FALSE
    /\ outcome = "none"
    /\ summary = NoSummary
    /\ interruptedMsg = FALSE

SensIdle ==
    /\ zones = <<>>
    /\ tool = ToolAbsent
    /\ sensPc = "idle"
    /\ queried = {}
    /\ sysfs_temps = <<>>
    /\ sensors_temp = NoTemp
    /\ maxOut = NoTemp

SnapIdle ==
    /\ snapArgs = [top_n |-> 1, show_temps |-> FALSE, raw |-> FALSE]
    /\ snapPc = "idle"
    /\ snapCpu = NotCalled
    /\ snap_cpu_percent = Zero
    /\ snap_processes = <<>>
    /\ temp_summary = NoText
    /\ stdout = <<>>
    /\ stderr = <<>>
    /\ exit_status = NotExited

\* calculate_cpu_usage about to run, nothing else started
StartCpu == InitCpu /\ StatIdle /\ ProcIdle /\ MonIdle /\ SensIdle /\ SnapIdle

SpecCpu == StartCpu /\ [][NextCpu]_vars

\* read_process_stat about to run, nothing else started
StartStat == InitStat /\ CpuIdle /\ ProcIdle /\ MonIdle /\ SensIdle /\ SnapIdle

SpecStat == StartStat /\ [][NextStat]_vars

\* get_top_processes about to run, nothing else started
StartProc == InitProc /\ CpuIdle /\ StatIdle /\ MonIdle /\ SensIdle /\ SnapIdle

SpecProc == StartProc /\ [][NextProc]_vars

\* print_monitor about to run, nothing else started
StartMon == InitMon /\ CpuIdle /\ StatIdle /\ ProcIdle /\ SensIdle /\ SnapIdle

SpecMon == StartMon /\ [][NextMon]_vars

\* a duration-bounded print_monitor about to run, nothing else started
StartMonLive == InitMonLive /\ CpuIdle /\ StatIdle /\ ProcIdle /\ SensIdle /\ SnapIdle

SpecMonLive == StartMonLive /\ [][NextMonLive]_vars /\ WF_vars(NextMonLive)

\* get_max_temperature about to run, nothing else started
StartSensors == InitSensors /\ CpuIdle /\ StatIdle /\ ProcIdle /\ MonIdle /\ SnapIdle

SpecSensors == StartSensors /\ [][NextSensors]_vars

\* print_snapshot about to run, nothing else started
StartSnap == InitSnap /\ CpuIdle /\ StatIdle /\ ProcIdle /\ MonIdle /\ SensIdle

SpecSnap == StartSnap /\ [][NextSnap]_vars

-----
(* Claims about calculate_cpu_usage and read_cpu_stat, under SpecCpu *)

\* the call of read_cpu_stat that produced readOut read the text procStat
\* holds now
ReadIsCurrent == cpuPc \in {"sleep", "done"} /\ readOut # NotCalled

\* the contract of calculate_cpu_usage for snapshots A then B and result r
CpuUsageLaw(A, B, r) ==
    LET td == total(B) - total(A)
        ad == td - (B.idle - A.idle)
    IN  /\ td = 0 => r = <<0, 1>>
        /\ td # 0 =>
             /\ ad * td < 0 => r = <<0, 1>>
             /\ (ad - td) * td > 0 => r = <<100, 1>>
             /\ (ad * td >= 0 /\ (ad - td) * td <= 0) =>
                    /\ r[2] > 0
                    /\ r[1] * td = 100 * ad * r[2]

TestSnapshot1 == CPUSnapshot(100, 10, 50, 500, 20, 5, 10, 0, 0, 0)
TestSnapshot2 == CPUSnapshot(200, 20, 100, 600, 40, 10, 20, 0, 0, 0)

C8_ShortLineAccepted ==
    (ReadIsCurrent /\ procStat.open) =>
        LET parts == split(procStat.text)
        IN  (/\ Len(parts) \in {9, 10}
             /\ parts[1] = CpuLabel
             /\ \A k \in 2..Len(parts) : IsInt(parts[k]))
            => /\ IsOk(readOut)
               /\ readOut.value.guest_nice = 0
               /\ Len(parts) = 9 => readOut.value.guest = 0

\* C9: read_cpu_stat raises IOError exactly when the source cannot be
\* opened, the first token is not 'cpu', there are fewer than 8 counter
\* fields, or a used field (one of the first ten) is not an integer; in
\* every other case it returns the snapshot of the parsed integers in order,
\* absent guest / guest_nice being 0.
C9_ReadCpuStatOutcome ==
    ReadIsCurrent =>
        LET parts == IF procStat.open THEN split(procStat.text) ELSE <<>>
            nf == Len(parts) - 1
            used == 1..Min(nf, 10)
            field(k) == IF k <= nf THEN int(parts[k + 1]) ELSE 0
            bad == \/ ~procStat.open
                   \/ parts = <<>>
                   \/ parts[1] # CpuLabel
                   \/ nf < 8
                   \/ \E k \in used : ~IsInt(parts[k + 1])
        IN  IF bad THEN readOut = IOError
            ELSE /\ IsOk(readOut)
                 /\ readOut.value = CPUSnapshot(field(1), field(2), field(3), field(4),
                                                field(5), field(6), field(7), field(8),
                                                field(9), field(10))

-----------------------------------------------------------------------------
(* Claims about read_process_stat, under SpecStat *)

\* the text is 'pid (name) ...': k decimal digits, a blank, '(', and a ')'
\* somewhere after it
HasRecordForm(c, k) ==
    /\ k >= 1 /\ k + 3 <= Len(c)
    /\ \A m \in 1..k : c[m] \in Digits
    /\ c[k + 1] = " "
    /\ c[k + 2] = "("
    /\ \E j \in (k + 3)..Len(c) : c[j] = ")"

\* the position of the last ')' of a text that has one
LastClose(c) == CHOOSE j \in 1..Len(c) : c[j] = ")" /\ \A m \in (j + 1)..Len(c) : c[m] # ")"

\* C7: for a record 'pid (name) f0 f1 ... f12 ...', whatever blanks, '(' or
\* ')' the name holds, read_process_stat returns pid, the full text between
\* the first '(' and the last ')' of the record as name, the 12th field
\* after that ')' as utime and the 13th as stime; with fewer than 13 fields
\* after the name, or with no ')' in the record, it returns None.
C7_LastParenSplit ==
    (statPc = "done" /\ content.open) =>
        LET c == content.text
        IN  /\ (\A j \in 1..Len(c) : c[j] # ")") => statOut = NoStat
            /\ \A k \in 1..Len(c) :
                 HasRecordForm(c, k) =>
                   LET last == LastClose(c)
                       fields == split(SubSeq(c, last + 1, Len(c)))
                   IN  /\ Len(fields) < 13 => statOut = NoStat
                       /\ (Len(fields) >= 13 /\ IsInt(fields[12]) /\ IsInt(fields[13])) =>
                            statOut = Ok([pid |-> int(SubSeq(c, 1, k)),
                                          name |-> SubSeq(c, k + 3, last - 1),
                                          utime |-> int(fields[12]),
                                          stime |-> int(fields[13])])

\* C7 witness: a record whose name holds a ')' and a blank was parsed into
\* a tuple with the name kept whole
C7_Witness ==
    /\ statPc = "done" /\ IsOk(statOut)
    /\ statOut.value.name = <<")", " ">>
    /\ statOut.value.pid = 42
    /\ statOut.value.utime = 30 /\ statOut.value.stime = 7

-----------------------------------------------------------------------------
(* Claims about calculate_process_cpu_usage and get_top_processes, under   *)
(* SpecProc                                                                *)

\* calculate_process_cpu_usage has returned processes_with_usage
ProcReturned == procPc \in {"sort", "done"}

Reported == {processes_with_usage[i].pid : i \in 1..Len(processes_with_usage)}

\* C2: every reported process has cpu_percent equal to
\* (ticksB - ticksA) / ticksPerSecond / interval * 100 floored at 0, ticksA
\* and ticksB being the pid's utime + stime at the first and the second
\* snapshot; there is no cap, so a tick difference above
\* ticksPerSecond * interval gives more than 100.
C2_ProcessUsage ==
    ProcReturned =>
        \A i \in 1..Len(processes_with_usage) :
            LET e == processes_with_usage[i]
                ticksA == proc1.entry[e.pid].t
                ticksB == proc2.entry[e.pid].t
                d == ticksB - ticksA
                r == e.cpu_percent
            IN  /\ r[2] > 0
                /\ d <= 0 => r = <<0, 1>>
                /\ d > 0 => r[1] * DefaultClockTicks * arg_interval = d * 100 * r[2]
                /\ d > DefaultClockTicks * arg_interval => RatLess(<<100, 1>>, r)

\* C2 witness: a process was reported with more than 100 percent
C2_Witness ==
    /\ ProcReturned
    /\ \E i \in 1..Len(processes_with_usage) :
          RatLess(<<100, 1>>, processes_with_usage[i].cpu_percent)

\* a pid that was not enumerated at the first snapshot and has a whole
\* record at the second
OnlyInSecond(p) == ~Alive(proc1.entry[p]) /\ proc2.entry[p].stat = "rec"

IndexOf(p) == CHOOSE i \in 1..Len(processes_with_usage) : processes_with_usage[i].pid = p

Returned == {processes[i].pid : i \in 1..Len(processes)}

\* C4: get_top_processes(n), n >= 1, on a usage list of length M returns
\* min(n, M) of its entries, in non-increasing cpu_percent order, and no
\* omitted entry has a cpu_percent strictly greater than a returned one.
C4_TopN ==
    procPc = "done" =>
        /\ Len(processes) = Min(arg_n, Len(processes_with_usage))
        /\ Cardinality(Returned) = Len(processes)
        /\ \A i \in 1..Len(processes) :
              \E j \in 1..Len(processes_with_usage) : processes[i] = processes_with_usage[j]
        /\ \A i \in 1..Len(processes), j \in 1..Len(processes) :
              i < j => RatLeq(processes[j].cpu_percent, processes[i].cpu_percent)
        /\ \A j \in 1..Len(processes_with_usage) :
              processes_with_usage[j].pid \notin Returned =>
                  \A i \in 1..Len(processes) :
                      RatLeq(processes_with_usage[j].cpu_percent, processes[i].cpu_percent)

\* C4 witness: of two entries enumerated in rising usage, the top 1 was
\* returned
C4_Witness ==
    /\ procPc = "done"
    /\ arg_n = 1
    /\ Len(processes_with_usage) = 2
    /\ RatLess(processes_with_usage[1].cpu_percent, processes_with_usage[2].cpu_percent)
    /\ Len(processes) = 1

\* C5: entries of equal cpu_percent come out of get_top_processes in the
\* order of their enumeration, and of a tie across the cut at n the entry
\* enumerated earlier is the one kept.
C5_StableTopN ==
    procPc = "done" =>
        /\ \A i \in 1..Len(processes), j \in 1..Len(processes) :
              (i < j /\ processes[i].cpu_percent = processes[j].cpu_percent)
                  => IndexOf(processes[i].pid) < IndexOf(processes[j].pid)
        /\ \A j \in 1..Len(processes_with_usage) :
              processes_with_usage[j].pid \notin Returned =>
                  \A i \in 1..Len(processes) :
                      processes[i].cpu_percent = processes_with_usage[j].cpu_percent
                          => IndexOf(processes[i].pid) < j

\* C5 witness: two busy entries tie, the higher pid was enumerated first,
\* and the cut at 1 kept it
C5_Witness ==
    /\ procPc = "done"
    /\ arg_n = 1
    /\ Len(processes_with_usage) = 2
    /\ processes_with_usage[1].cpu_percent = processes_with_usage[2].cpu_percent
    /\ RatLess(<<0, 1>>, processes_with_usage[1].cpu_percent)
    /\ processes_with_usage[1].pid > processes_with_usage[2].pid
    /\ processes = <<processes_with_usage[1]>>

\* the entry reported for pid p, from p's own files alone
OwnEntry(p) ==
    LET d == proc2.entry[p].t - proc1.entry[p].t
    IN  [pid |-> p,
         name |-> NameOf(p),
         user |-> IF UidOf(p) = 0 THEN <<"r", "o", "o", "t">>
                  ELSE IF UidOf(p) = 1000 THEN <<"a", "l">>
                  ELSE DecStr(UidOf(p)),
         cpu_percent |-> IF d <= 0 THEN <<0, 1>> ELSE Rat(d, arg_interval)]

\* C6: the result has one entry for exactly the pids whose stat record was
\* readable and well-formed at both snapshots and whose uid was readable at
\* the first; a pid with a malformed, missing or refused record, an
\* unreadable uid, or that exited during the sleep is left out, and each
\* entry is what the pid's own files make it, whatever happened to others.
C6_PerProcessFailures ==
    ProcReturned =>
        /\ Reported = {p \in Pids : /\ proc1.entry[p].stat = "rec"
                                    /\ proc1.entry[p].status = "ok"
                                    /\ proc2.entry[p].stat = "rec"}
        /\ Len(processes_with_usage) = Cardinality(Reported)
        /\ \A i \in 1..Len(processes_with_usage) :
              processes_with_usage[i] = OwnEntry(processes_with_usage[i].pid)

\* C6 witness: the first pid enumerated had a truncated record and a later
\* one was reported
C6_Witness ==
    /\ ProcReturned
    /\ proc1.order = "asc"
    /\ proc1.entry[1].stat = "cut"
    /\ 2 \in Reported


\* the uid of pid p has no entry in the account database
Unresolvable(p) == UidOf(p) \notin {0, 1000}

\* C16: the user of a reported process is the account name of its uid when
\* the uid resolves and the decimal text of the uid when it does not; a
\* process whose uid is readable but does not resolve is still reported.
C16_UsernameFallback ==
    ProcReturned =>
        /\ \A i \in 1..Len(processes_with_usage) :
              LET e == processes_with_usage[i]
              IN  /\ UidOf(e.pid) = 0 => e.user = <<"r", "o", "o", "t">>
                  /\ UidOf(e.pid) = 1000 => e.user = <<"a", "l">>
                  /\ UidOf(e.pid) = 9999 => e.user = <<"9", "9", "9", "9">>
                  /\ Unresolvable(e.pid) =>
                         /\ Len(e.user) >= 1
                         /\ IsInt(e.user)
                         /\ int(e.user) = UidOf(e.pid)
        /\ \A p \in Pids :
              (/\ Unresolvable(p)
               /\ proc1.entry[p].stat = "rec"
               /\ proc1.entry[p].status = "ok"
               /\ proc2.entry[p].stat = "rec") => p \in Reported

\* C16 witness: a process whose uid does not resolve was reported next to
\* one whose uid does
C16_Witness ==
    /\ ProcReturned
    /\ \E i, j \in 1..Len(processes_with_usage) :
          /\ Unresolvable(processes_with_usage[i].pid)
          /\ ~Unresolvable(processes_with_usage[j].pid)
-----------------------------------------------------------------------------
(* Claims about print_monitor, under SpecMon *)

\* C10: a monitoring session cancelled by KeyboardInterrupt after k >= 1
\* completed samples has written the aggregate statistics of those samples
\* (mean and max CPU, mean and max temperature, per-process means) by the
\* time it terminates.
C10_InterruptFlushes ==
    (monPc = "exit130" /\ sample_count >= 1 /\ ~raw) =>
        summary = SummaryOf(cpu_readings, temperatures, all_processes, top_n)


\* the session has left print_monitor
MonEnded == monPc \in {"returned", "exit130", "exit1"}

\* C11: an IOError of the whole-system counter on one sample writes one
\* warning and the loop goes on to its wait and then to the next iteration's
\* check; only Ctrl-C can end the session from there.  A session that
\* returns has gone through the summary block, which in formatted mode
\* prints the aggregates of the samples that succeeded.
C11_FailureContinues ==
    /\ [][(monPc = "measure" /\ monPc' # "exit130" /\ outcome' = "IOError") =>
              (warnings' = warnings + 1 /\ monPc' = "wait")]_vars
    /\ [][(monPc = "wait" /\ outcome = "IOError") => monPc' \in {"check", "exit130"}]_vars
    /\ [](monPc = "exit1" => FALSE)
    /\ []((monPc = "returned" /\ ~raw) =>
              summary = SummaryOf(cpu_readings, temperatures, all_processes, top_n))

\* a session with a failed sample and a succeeded one has returned and
\* printed the summary of the succeeded one
C11_Witness ==
    /\ monPc = "returned"
    /\ warnings >= 1
    /\ sample_count >= 1
    /\ summary.kind = "summary"
    /\ summary.cpu # <<>>

\* C17: the wait of interval seconds is left out only after the last
\* iteration: when the loop is about to take a measurement and has taken one
\* before, it has slept since that one.
C17_SleptBetweenMeasurements ==
    (monPc = "measure" /\ outcome # "none") => slept

\* time.time() - start_time
Elapsed == now - start_time

\* a step of the loop in which a measurement failed with IOError
FailedMeasurement == monPc = "measure" /\ monPc' # "exit130" /\ outcome' = "IOError"

\* C18: with samples = N, sample_count never exceeds N and no measurement
\* is started once N have succeeded (or, with a duration as well, once the
\* duration has elapsed); without a duration the loop is left exactly when
\* sample_count = N; a failed measurement does not count; with both limits
\* the loop is left as soon as a check finds either reached.
C18_SampleLimit ==
    /\ [](samples.has => sample_count <= samples.v)
    /\ []((monPc = "measure" /\ samples.has) => sample_count < samples.v)
    /\ []((monPc = "measure" /\ duration.has) => Elapsed < duration.v)
    /\ []((monPc \in {"summary", "returned"} /\ samples.has /\ ~duration.has)
              => sample_count = samples.v)
    /\ []((monPc \in {"summary", "returned"} /\ samples.has /\ duration.has)
              => (sample_count = samples.v \/ Elapsed >= duration.v))
    /\ [][FailedMeasurement => sample_count' = sample_count]_vars

\* C18 witness: a session of two samples and no duration returned after a
\* failed measurement and two that succeeded
C18_Witness ==
    /\ monPc = "returned"
    /\ ~duration.has
    /\ samples = Some(2)
    /\ sample_count = 2
    /\ warnings >= 1

\* C19: at every iteration boundary len(cpu_readings) = sample_count,
\* len(temperatures) <= sample_count and every per-process aggregate has
\* 1 <= count <= sample_count; a measurement that fails with IOError leaves
\* cpu_readings, the aggregates, temperatures and sample_count unchanged.
C19_AggregatesConsistent ==
    /\ [](/\ Len(cpu_readings) = sample_count
          /\ Len(temperatures) <= sample_count
          /\ \A i \in 1..Len(all_processes) :
                /\ 1 <= all_processes[i].count
                /\ all_processes[i].count <= sample_count)
    /\ [][FailedMeasurement =>
              UNCHANGED <<cpu_readings, all_processes, temperatures, sample_count>>]_vars

\* C19 witness: after two samples and a failed one, a temperature was
\* missing once and a process was seen in one sample only
C19_Witness ==
    /\ monPc = "check"
    /\ sample_count = 2
    /\ warnings >= 1
    /\ Len(temperatures) = 1
    /\ \E i \in 1..Len(all_processes) : all_processes[i].count = 1
    /\ \E i \in 1..Len(all_processes) : all_processes[i].count = 2

-----------------------------------------------------------------------------
(* Claims about the termination of print_monitor, under SpecMonLive *)

\* C20: a session bounded by a duration D > 0, the default of 60 seconds
\* included, attempts at least one measurement and, whatever measurements
\* fail, eventually returns through the summary block once the elapsed time
\* is at least D (or, when samples is given too, once that limit is met).
C20_DurationTerminates ==
    (monPc = "start") ~>
        (/\ monPc = "returned"
         /\ sample_count + warnings >= 1
         /\ duration.has /\ duration.v > 0
         /\ ~samples.has => Elapsed >= duration.v
         /\ samples.has => (Elapsed >= duration.v \/ sample_count = samples.v)
         /\ ~raw => summary = SummaryOf(cpu_readings, temperatures, all_processes, top_n))

\* C20 witness: a session started without any limit ran for the default
\* duration, some of its measurements failing, and returned
C20_Witness ==
    /\ monPc = "returned"
    /\ duration = Some(DefaultDuration)
    /\ ~samples.has
    /\ Elapsed >= DefaultDuration
    /\ warnings >= 2
    /\ sample_count >= 2
-----------------------------------------------------------------------------
(* Claims about sensors_integration.py, under SpecSensors *)

\* the readings get_max_temperature has to choose from
AvailableTemps ==
    {sysfs_temps[k] : k \in 1..Len(sysfs_temps)}
    \cup (IF sensors_temp.has THEN {sensors_temp.v} ELSE {})

C14_SensorsCommand ==
    sensPc \in {"max", "done"} =>
        sensors_temp =
            IF tool.kind # "exit" \/ tool.returncode # 0 THEN NoTemp
            ELSE CASE tool.stdout = SensorsTestOutput -> Some(<<45, 1>>)
                   [] tool.stdout = SensorsMiddleOutput -> Some(<<58, 1>>)
                   [] tool.stdout = SensorsTdieOutput -> Some(<<306, 5>>)
                   [] tool.stdout = SensorsBoardOutput -> Some(<<40, 1>>)
                   [] tool.stdout = SensorsNoLabelOutput -> NoTemp

\* C14 witness: of three labelled readings the second was the largest and
\* was returned
C14_Witness ==
    /\ sensPc = "max"
    /\ tool = ToolExit(0, SensorsMiddleOutput)
    /\ sensors_temp = Some(<<58, 1>>)

\* a zone file that can be opened and holds a number
Usable(z) == z.state = "ok" /\ IsInt(z.text)

UsableAt == {k \in 1..Len(zones) : Usable(zones[k])}

\* the position in zones of the j-th usable zone file
NthUsable(j) == CHOOSE k \in UsableAt : Cardinality({i \in UsableAt : i <= k}) = j

\* C15: read_sysfs_temperatures returns one reading for each zone file that
\* is readable and numeric, the file's millidegrees divided by 1000, in the
\* order of glob; a file that is missing, unreadable or not numeric is left
\* out and changes no other reading; with no usable file the list is empty.
C15_SysfsReadings ==
    sensPc \in {"sensors", "max", "done"} =>
        /\ Len(sysfs_temps) = Cardinality(UsableAt)
        /\ \A j \in 1..Len(sysfs_temps) :
              sysfs_temps[j][1] * 1000 = int(zones[NthUsable(j)].text) * sysfs_temps[j][2]

\* C15 witness: a file that had gone and one without a number came before a
\* good one, whose reading is the only one returned
C15_Witness ==
    /\ sensPc = "sensors"
    /\ Len(zones) = 3
    /\ zones[1] = ZoneGone
    /\ zones[2].state = "ok" /\ ~IsInt(zones[2].text)
    /\ sysfs_temps = << <<55, 1>> >>
-----------------------------------------------------------------------------
(* Claims about print_snapshot, under SpecSnap *)

\* C12: when the whole-system counters cannot be read, print_snapshot
\* writes an error and exits with status 1, and writes no CPU percentage, no
\* process table and no summary line for that attempt; nothing is put in the
\* place of the missing value.
C12_SnapshotFailureIsFatal ==
    snapCpu = IOError =>
        /\ snapPc = "exited"
        /\ exit_status = 1
        /\ stdout = <<>>
        /\ stderr = <<Line("error", "Failed to read system information")>>

\* C12 witness: a formatted snapshot failed at its first call
C12_Witness ==
    /\ snapCpu = IOError
    /\ ~snapArgs.raw
    /\ snapPc = "exited"
====
